---- MODULE Spec2Model ----
(***************************************************************************)
(* pigment: DeviceColor (RGB), HSL, XYZ, LAB, LCH, OKLAB and the palette   *)
(* utilities, modelled as state machines over the library's value types.   *)
(*                                                                         *)
(* A C++ double v is represented by the integer v * S (fixed point, about  *)
(* six decimal digits).  S is a multiple of 255 so that channel / 255.0 is *)
(* exact.  8-bit channels, the 16-bit HSL hue and int intermediates are    *)
(* integers of the width the source gives them.                            *)
(***************************************************************************)
EXTENDS Integers, Sequences, FiniteSets, TLC

VARIABLES
    op,       \* name of the operation that produced the current state
    color,    \* the DeviceColor (RGB) the operation is applied to
    other,    \* the second DeviceColor operand
    param,    \* the double argument of the call (fixed point)
    space,    \* the XYZ / LAB / LCH / OKLAB value held between fromRGB and to_rgb
    result,   \* the DeviceColor returned by the operation
    hsl,      \* the HSL value
    trail,    \* the rotations applied to hsl since it was built
    palette,  \* the std::vector<RGB> argument
    output,   \* the std::vector<RGB> returned
    scalar    \* the double(s) returned (distances)

vars == <<op, color, other, param, space, result, hsl, trail, palette, output, scalar>>

-----------------------------------------------------------------------------
(* Fixed-point arithmetic                                                  *)
(* Dec(i, f) is the double literal i.fffffff, f counting 1e-7.             *)

\* the scale: S = SK * SM, and S / 255 is an integer
SK == 4 * 255
SM == 10 * 100
S == SK * SM

Abs(a) == IF a < 0 THEN -a ELSE a
Sgn(a) == IF a < 0 THEN -1 ELSE 1
Min(a, b) == IF a < b THEN a ELSE b
Max(a, b) == IF a > b THEN a ELSE b
Clamp(v, lo, hi) == IF v < lo THEN lo ELSE IF v > hi THEN hi ELSE v

\* C++ integer division and double-to-integer conversion truncate toward zero
TDiv(a, n) == IF a >= 0 THEN a \div n ELSE -((-a) \div n)

\* a * b on doubles: floor(a * b / S) computed in 32-bit pieces
MulU(a, b) ==
    LET a1 == a \div SM
        a0 == a % SM
        b1 == b \div SK
        b0 == b % SK
    IN a1 * b1 + (a0 * b1) \div SM + (a1 * b0) \div SK + (a0 * b0) \div S

Mul(a, b) == Sgn(a) * Sgn(b) * MulU(Abs(a), Abs(b))

RECURSIVE DivR(_, _, _, _)
DivR(q, r, b, fs) ==
    IF fs = <<>> THEN q
    ELSE LET f == Head(fs)
         IN DivR(q * f + (r * f) \div b, (r * f) % b, b, Tail(fs))

\* a / b on doubles: floor(a * S / b) by long division (17*6*10^4 = S)
DivU(a, b) == DivR(a \div b, a % b, b, <<17, 6, 10, 10, 10, 10>>)

Div(a, b) == Sgn(a) * Sgn(b) * DivU(Abs(a), Abs(b))

\* the double n / d for small non-negative integers
Ratio(n, d) ==
    LET q1 == ((n % d) * SK) \div d
        r1 == ((n % d) * SK) % d
    IN (n \div d) * S + q1 * SM + (r1 * SM) \div d

\* floor(v * n) for a double 0 <= v <= 1 and an integer n
Times(v, n) == ((v \div SM) * n + ((v % SM) * n) \div SM) \div SK

\* std::round: nearest integer, halves away from zero
Round(v) ==
    IF v >= 0 THEN (2 * v + S) \div (2 * S) ELSE -((2 * (-v) + S) \div (2 * S))

\* static_cast<int>(double): truncation toward zero
Trunc(v) == TDiv(v, S)

Dec(i, f) == i * S + (f * 51) \div 500

LN2 == Dec(0, 6931472)
SQRT3 == Dec(1, 7320508)
\* M_PI
PI == Dec(3, 1415927)

RECURSIVE LnRed(_, _)
\* x = m * 2^k with 0.75 <= m < 1.5
LnRed(m, k) ==
    IF m >= (3 * S) \div 2 THEN LnRed(m \div 2, k + 1)
    ELSE IF m < (3 * S) \div 4 THEN LnRed(m * 2, k - 1)
    ELSE <<m, k>>

\* natural logarithm, x > 0: k ln 2 + 2 atanh((m - 1) / (m + 1))
Ln(x) ==
    CHOOSE y \in
        {LET k == zk[2]
             z == zk[1]
             z2 == Mul(z, z)
             z3 == Mul(z, z2)
             z5 == Mul(z3, z2)
             z7 == Mul(z5, z2)
             z9 == Mul(z7, z2)
         IN k * LN2 + 2 * (z + TDiv(z3, 3) + TDiv(z5, 5) + TDiv(z7, 7) + TDiv(z9, 9)) :
         zk \in {<<Div(mk[1] - S, mk[1] + S), mk[2]>> : mk \in {LnRed(x, 0)}}} : TRUE

RECURSIVE ExpSer(_, _, _, _)
ExpSer(r, term, n, acc) ==
    IF n > 12 THEN acc
    ELSE CHOOSE y \in {ExpSer(r, t[1], n + 1, t[2]) :
                       t \in {<<TDiv(Mul(term, r), n), acc + TDiv(Mul(term, r), n)>>}} : TRUE

RECURSIVE Pow2Scale(_, _)
Pow2Scale(v, k) ==
    IF k = 0 THEN v
    ELSE IF k > 0 THEN Pow2Scale(v * 2, k - 1)
    ELSE Pow2Scale(v \div 2, k + 1)

\* e^y = 2^k * e^r with y = k ln 2 + r, 0 <= r < ln 2
Exp(y) ==
    CHOOSE v \in {IF kr[1] < -30 THEN 0 ELSE Pow2Scale(ExpSer(kr[2], S, 1, S), kr[1]) :
                  kr \in {<<y0 \div LN2, y0 % LN2>> : y0 \in {y}}} : TRUE

\* std::pow(x, e) for x >= 0; pow(x, 1.0) = x and pow(1.0, e) = 1.0 exactly
Pow(x, e) ==
    IF x = 0 THEN 0
    ELSE IF e = S THEN x
    ELSE IF x = S THEN S
    ELSE Exp(Mul(e, Ln(x)))

\* std::cbrt(x), x >= 0
Cbrt(x) == Pow(x, S \div 3)

\* one Newton step per level; the singleton sets fix each iterate's value
RECURSIVE SqrtIter(_, _)
SqrtIter(x, y) ==
    CHOOSE r \in {IF n >= y THEN y ELSE SqrtIter(x, n) :
                      n \in {(y + Div(x, y)) \div 2}} : TRUE

\* std::sqrt(x) by Newton's iteration from above
Sqrt(x) ==
    CHOOSE r \in {IF v <= 0 THEN 0 ELSE SqrtIter(v, Min(Max(v, S), 45 * S)) :
                      v \in {x}} : TRUE

RECURSIVE SinSer(_, _, _, _)
SinSer(t2, term, n, acc) ==
    IF n > 13 THEN acc
    ELSE LET t == -TDiv(Mul(term, t2), n * (n - 1))
         IN SinSer(t2, t, n + 2, acc + t)

\* std::sin(x), x in radians
Sin(x) ==
    LET t0 == x % (2 * PI)
        t1 == IF t0 > PI THEN t0 - 2 * PI ELSE t0
        t == IF t1 > PI \div 2 THEN PI - t1
             ELSE IF t1 < -(PI \div 2) THEN -PI - t1
             ELSE t1
    IN SinSer(Mul(t, t), t, 3, t)

Cos(x) == Sin(x + PI \div 2)

RECURSIVE AtanSer(_, _, _, _)
AtanSer(t2, p, n, acc) ==
    IF n > 11 THEN acc
    ELSE LET q == -Mul(p, t2) IN AtanSer(t2, q, n + 2, acc + TDiv(q, n))

\* atan(t) for 0 <= t <= 1, reduced by pi/6 above 2 - sqrt(3)
Atan01(t) ==
    IF t > 2 * S - SQRT3
    THEN LET u == Div(Mul(t, SQRT3) - S, SQRT3 + t)
         IN PI \div 6 + AtanSer(Mul(u, u), u, 3, u)
    ELSE AtanSer(Mul(t, t), t, 3, t)

\* std::atan2(y, x) in radians
Atan2(y, x) ==
    IF x = 0 /\ y = 0 THEN 0
    ELSE LET ax == Abs(x)
             ay == Abs(y)
             a == IF ay <= ax THEN Atan01(Div(ay, ax))
                  ELSE PI \div 2 - Atan01(Div(ax, ay))
             b == IF x < 0 THEN PI - a ELSE a
         IN IF y < 0 THEN -b ELSE b

\* std::fmod(h, 360.0): remainder with the sign of h
Fmod360(h) == IF h >= 0 THEN h % (360 * S) ELSE -((-h) % (360 * S))

\* sqrt(a*a + b*b); the squares are taken of a/m and b/m, m = max(|a|,|b|),
\* to stay inside 32 bits
Hypot(a, b) ==
    CHOOSE d \in {LET m == Max(Abs(v[1]), Abs(v[2]))
                  IN IF m = 0 THEN 0
                     ELSE LET p == Div(v[1], m)
                              q == Div(v[2], m)
                          IN Mul(m, Sqrt(Mul(p, p) + Mul(q, q))) :
                  v \in {<<a, b>>}} : TRUE

-----------------------------------------------------------------------------
(* DeviceColor (RGB), types_basic.hpp                                      *)

RGB(r_, g_, b_, a_) == [r |-> r_, g |-> g_, b |-> b_, a |-> a_]

\* static_cast<uint8_t>(std::clamp(std::round(v * 255.0), 0.0, 255.0))
ToChannel(v) == Clamp(Round(v * 255), 0, 255)

-----------------------------------------------------------------------------
(* XYZ, types_xyz.hpp                                                      *)

\* sRGB -> linear, the lambda of XYZ::fromRGB and OKLAB::fromRGB
linearize(c) ==
    LET val == c * (S \div 255)
    IN IF val <= Dec(0, 404500) THEN Div(val, Dec(12, 9200000))
       ELSE Pow(Div(val + Dec(0, 550000), Dec(1, 550000)), Dec(2, 4000000))

\* linear -> sRGB, the lambda of XYZ::to_rgb and OKLAB::to_rgb
gamma_correct(val) ==
    IF val <= Dec(0, 31308) THEN Mul(val, Dec(12, 9200000))
    ELSE Mul(Dec(1, 550000), Pow(val, Ratio(10, 24))) - Dec(0, 550000)

XYZ_fromRGB(c) ==
    LET r_linear == linearize(c.r)
        g_linear == linearize(c.g)
        b_linear == linearize(c.b)
        x0 == Mul(r_linear, Dec(0, 4124564)) + Mul(g_linear, Dec(0, 3575761))
                + Mul(b_linear, Dec(0, 1804375))
        y0 == Mul(r_linear, Dec(0, 2126729)) + Mul(g_linear, Dec(0, 7151522))
                + Mul(b_linear, Dec(0, 721750))
        z0 == Mul(r_linear, Dec(0, 193339)) + Mul(g_linear, Dec(0, 1191920))
                + Mul(b_linear, Dec(0, 9503041))
    IN [type |-> "XYZ", x |-> Mul(x0, Dec(95, 470000)), y |-> y0 * 100,
        z |-> Mul(z0, Dec(108, 8830000))]

XYZ_to_rgb(v) ==
    LET x_val == Div(v.x, Dec(95, 470000))
        y_val == TDiv(v.y, 100)
        z_val == Div(v.z, Dec(108, 8830000))
        r_linear == Mul(x_val, Dec(3, 2404542)) + Mul(y_val, -Dec(1, 5371385))
                      + Mul(z_val, -Dec(0, 4985314))
        g_linear == Mul(x_val, -Dec(0, 9692660)) + Mul(y_val, Dec(1, 8760108))
                      + Mul(z_val, Dec(0, 415560))
        b_linear == Mul(x_val, Dec(0, 556434)) + Mul(y_val, -Dec(0, 2040259))
                      + Mul(z_val, Dec(1, 572252))
    IN RGB(ToChannel(gamma_correct(r_linear)), ToChannel(gamma_correct(g_linear)),
           ToChannel(gamma_correct(b_linear)), 255)

-----------------------------------------------------------------------------
(* lab_tables and LAB, types_lab.hpp                                       *)

GAMMA_TABLE_SIZE == 256
LINEAR_TABLE_SIZE == 4096
LAB_F_TABLE_SIZE == 4096

\* entry i of the table built by create_gamma_to_linear_table
gamma_to_linear(i) ==
    LET val == i * (S \div 255)
    IN IF val > Dec(0, 404500)
       THEN Pow(Div(val + Dec(0, 550000), Dec(1, 550000)), Dec(2, 4000000))
       ELSE Div(val, Dec(12, 9200000))

\* entry i of the table built by create_linear_to_gamma_table
linear_to_gamma(i) ==
    LET val == Ratio(i, LINEAR_TABLE_SIZE - 1)
    IN IF val > Dec(0, 31308)
       THEN Mul(Dec(1, 550000), Pow(val, Ratio(10, 24))) - Dec(0, 550000)
       ELSE Mul(Dec(12, 9200000), val)

\* entry i of the table built by create_lab_f_table
lab_f(i) ==
    LET t == 2 * Ratio(i, LAB_F_TABLE_SIZE - 1)
    IN IF t > Dec(0, 88560) THEN Pow(t, Ratio(1, 3))
       ELSE Mul(Dec(7, 7870000), t) + Ratio(16, 116)

\* entry i of the table built by create_lab_f_inv_table
lab_f_inv(i) ==
    LET t == 2 * Ratio(i, LAB_F_TABLE_SIZE - 1)
        t3 == Mul(Mul(t, t), t)
    IN IF t3 > Dec(0, 88560) THEN t3
       ELSE Div(t - Ratio(16, 116), Dec(7, 7870000))

\* static_cast<size_t>(std::clamp(v, 0.0, 1.0) * (size - 1))
TableIndex(v, size) == Times(Clamp(v, 0, S), size - 1)

fast_gamma_to_linear(val) == gamma_to_linear(val)

fast_linear_to_gamma(val) == linear_to_gamma(TableIndex(val, LINEAR_TABLE_SIZE))

fast_lab_f(t) == lab_f(TableIndex(TDiv(t, 2), LAB_F_TABLE_SIZE))

fast_lab_f_inv(t) == lab_f_inv(TableIndex(TDiv(t, 2), LAB_F_TABLE_SIZE))

LAB(l_, a_, b_, alpha_) == [type |-> "LAB", l |-> l_, a |-> a_, b |-> b_, alpha |-> alpha_]

\* LAB::fromRGB: linear <<r_val, g_val, b_val>>, then <<x, y, z>> over the
\* white point, then <<fx, fy, fz>>
LAB_fromRGB(rgb) ==
    CHOOSE lab \in
        {LAB(116 * f[2] - 16 * S, 500 * (f[1] - f[2]), 200 * (f[2] - f[3]), rgb.a * S) :
         f \in {<<fast_lab_f(xyz[1]), fast_lab_f(xyz[2]), fast_lab_f(xyz[3])>> :
           xyz \in {<<Div(Mul(v[1], Dec(0, 4124564)) + Mul(v[2], Dec(0, 3575761))
                          + Mul(v[3], Dec(0, 1804375)), Dec(0, 9504700)),
                      Mul(v[1], Dec(0, 2126729)) + Mul(v[2], Dec(0, 7151522))
                          + Mul(v[3], Dec(0, 721750)),
                      Div(Mul(v[1], Dec(0, 193339)) + Mul(v[2], Dec(0, 1191920))
                          + Mul(v[3], Dec(0, 9503041)), Dec(1, 888300))>> :
             v \in {<<fast_gamma_to_linear(rgb.r), fast_gamma_to_linear(rgb.g),
                      fast_gamma_to_linear(rgb.b)>>}}}} : TRUE

\* static_cast<uint8_t>(alpha()): truncation, reduced modulo 2^8
AlphaByte(alpha) == Trunc(alpha) % 256

\* std::clamp(static_cast<int>(std::round(v * 255)), 0, 255)
LabChannel(v) == Clamp(Round(v * 255), 0, 255)

LAB_to_rgb(v) ==
    LET fy == TDiv(v.l + 16 * S, 116)
        fx == TDiv(v.a, 500) + fy
        fz == fy - TDiv(v.b, 200)
        x == Mul(fast_lab_f_inv(fx), Dec(0, 9504700))
        y == fast_lab_f_inv(fy)
        z == Mul(fast_lab_f_inv(fz), Dec(1, 888300))
        r_val == Mul(x, Dec(3, 2404542)) + Mul(y, -Dec(1, 5371385))
                   + Mul(z, -Dec(0, 4985314))
        g_val == Mul(x, -Dec(0, 9692660)) + Mul(y, Dec(1, 8760108))
                   + Mul(z, Dec(0, 415560))
        b_val == Mul(x, Dec(0, 556434)) + Mul(y, -Dec(0, 2040259))
                   + Mul(z, Dec(1, 572252))
    IN RGB(LabChannel(fast_linear_to_gamma(r_val)),
           LabChannel(fast_linear_to_gamma(g_val)),
           LabChannel(fast_linear_to_gamma(b_val)), AlphaByte(v.alpha))

-----------------------------------------------------------------------------
(* LCH, types_lch.hpp                                                      *)

LCH_normalize(v) ==
    LET l1 == Clamp(v.l, 0, 100 * S)
        c1 == Max(0, v.c)
        h1 == IF v.h < 0 \/ v.h >= 360 * S
              THEN LET f == Fmod360(v.h) IN IF f < 0 THEN f + 360 * S ELSE f
              ELSE v.h
    IN [type |-> "LCH", l |-> l1, c |-> c1, h |-> h1]

\* the constructor LCH(l_, c_, h_)
LCH(l_, c_, h_) == LCH_normalize([type |-> "LCH", l |-> l_, c |-> c_, h |-> h_])

LCH_fromLAB(lab) ==
    LET c0 == Hypot(lab.a, lab.b)
        h0 == Div(Atan2(lab.b, lab.a) * 180, PI)
        h1 == IF h0 < 0 THEN h0 + 360 * S ELSE h0
    IN LCH_normalize([type |-> "LCH", l |-> lab.l, c |-> c0, h |-> h1])

LCH_fromRGB(rgb) == LCH_fromLAB(LAB_fromRGB(rgb))

LCH_to_lab(v) ==
    LET h_rad == TDiv(Mul(v.h, PI), 180)
    IN LAB(v.l, Mul(v.c, Cos(h_rad)), Mul(v.c, Sin(h_rad)), 255 * S)

LCH_to_rgb(v) == LAB_to_rgb(LCH_to_lab(v))

-----------------------------------------------------------------------------
(* OKLAB, types_oklab.hpp                                                  *)

OKLAB(l_, a_, b_) == [type |-> "OKLAB", l |-> l_, a |-> a_, b |-> b_]

OKLAB_fromRGB(c) ==
    LET r_val == linearize(c.r)
        g_val == linearize(c.g)
        b_val == linearize(c.b)
        lms_l == Cbrt(Mul(Dec(0, 4122215), r_val) + Mul(Dec(0, 5363325), g_val)
                        + Mul(Dec(0, 514460), b_val))
        lms_m == Cbrt(Mul(Dec(0, 2119035), r_val) + Mul(Dec(0, 6806995), g_val)
                        + Mul(Dec(0, 1073970), b_val))
        lms_s == Cbrt(Mul(Dec(0, 883025), r_val) + Mul(Dec(0, 2817188), g_val)
                        + Mul(Dec(0, 6299787), b_val))
    IN OKLAB(Mul(Dec(0, 2104543), lms_l) + Mul(Dec(0, 7936178), lms_m)
                 - Mul(Dec(0, 40720), lms_s),
             Mul(Dec(1, 9779985), lms_l) - Mul(Dec(2, 4285922), lms_m)
                 + Mul(Dec(0, 4505937), lms_s),
             Mul(Dec(0, 259040), lms_l) + Mul(Dec(0, 7827718), lms_m)
                 - Mul(Dec(0, 8086758), lms_s))

Cube(v) == Mul(Mul(v, v), v)

OKLAB_to_rgb(v) ==
    LET lms_l == Cube(v.l + Mul(Dec(0, 3963378), v.a) + Mul(Dec(0, 2158038), v.b))
        lms_m == Cube(v.l - Mul(Dec(0, 1055613), v.a) - Mul(Dec(0, 638542), v.b))
        lms_s == Cube(v.l - Mul(Dec(0, 894842), v.a) - Mul(Dec(1, 2914855), v.b))
        r_linear == Mul(Dec(4, 767417), lms_l) - Mul(Dec(3, 3077116), lms_m)
                      + Mul(Dec(0, 2309699), lms_s)
        g_linear == -Mul(Dec(1, 2684380), lms_l) + Mul(Dec(2, 6097574), lms_m)
                      - Mul(Dec(0, 3413194), lms_s)
        b_linear == -Mul(Dec(0, 41961), lms_l) - Mul(Dec(0, 7034186), lms_m)
                      + Mul(Dec(1, 7076147), lms_s)
    IN RGB(ToChannel(gamma_correct(r_linear)), ToChannel(gamma_correct(g_linear)),
           ToChannel(gamma_correct(b_linear)), 255)

-----------------------------------------------------------------------------
(* Values the variables hold while an operation does not use them          *)

\* RGB(): opaque black
RGB_default == RGB(0, 0, 0, 255)

\* HSL(): the member initialisers
HSL_default == [h |-> 0, s |-> 0, l |-> 0, alpha |-> 255]

NoSpace == [type |-> "none"]

-----------------------------------------------------------------------------
(* Conversions: RGB -> XYZ / LAB / LCH / OKLAB -> RGB                      *)

\* channel values of the colours converted; the three channels take
\* different sets
ConvR == {0, 13, 127, 253, 255}
ConvG == {13, 50, 253, 254, 255}
ConvB == {13, 64, 100, 253, 254}
ConvA == {255, 128}

ConvInit ==
    /\ op = "init"
    /\ color \in {RGB(r, g, b, a) : r \in ConvR, g \in ConvG, b \in ConvB, a \in ConvA}
    /\ other = RGB_default
    /\ param = 0
    /\ space = NoSpace
    /\ result = RGB_default
    /\ hsl = HSL_default
    /\ trail = <<>>
    /\ palette = <<>>
    /\ output = <<>>
    /\ scalar = 0

ConvFrame == UNCHANGED <<color, other, param, hsl, trail, palette, output, scalar>>

XYZfromRGB ==
    /\ op = "init"
    /\ space' = XYZ_fromRGB(color)
    /\ op' = "fromRGB"
    /\ UNCHANGED result
    /\ ConvFrame

LABfromRGB ==
    /\ op = "init"
    /\ space' = LAB_fromRGB(color)
    /\ op' = "fromRGB"
    /\ UNCHANGED result
    /\ ConvFrame

LCHfromRGB ==
    /\ op = "init"
    /\ space' = LCH_fromRGB(color)
    /\ op' = "fromRGB"
    /\ UNCHANGED result
    /\ ConvFrame

OKLABfromRGB ==
    /\ op = "init"
    /\ space' = OKLAB_fromRGB(color)
    /\ op' = "fromRGB"
    /\ UNCHANGED result
    /\ ConvFrame

XYZtoRGB ==
    /\ op = "fromRGB"
    /\ space.type = "XYZ"
    /\ result' = XYZ_to_rgb(space)
    /\ op' = "to_rgb"
    /\ UNCHANGED space
    /\ ConvFrame

LABtoRGB ==
    /\ op = "fromRGB"
    /\ space.type = "LAB"
    /\ result' = LAB_to_rgb(space)
    /\ op' = "to_rgb"
    /\ UNCHANGED space
    /\ ConvFrame

LCHtoRGB ==
    /\ op = "fromRGB"
    /\ space.type = "LCH"
    /\ result' = LCH_to_rgb(space)
    /\ op' = "to_rgb"
    /\ UNCHANGED space
    /\ ConvFrame

OKLABtoRGB ==
    /\ op = "fromRGB"
    /\ space.type = "OKLAB"
    /\ result' = OKLAB_to_rgb(space)
    /\ op' = "to_rgb"
    /\ UNCHANGED space
    /\ ConvFrame

ConvNext ==
    \/ XYZfromRGB
    \/ LABfromRGB
    \/ LCHfromRGB
    \/ OKLABfromRGB
    \/ XYZtoRGB
    \/ LABtoRGB
    \/ LCHtoRGB
    \/ OKLABtoRGB

SpecConv == ConvInit /\ [][ConvNext]_vars

\* largest difference over the r, g, b channels
ChannelDiff(x, y) == Max(Abs(x.r - y.r), Max(Abs(x.g - y.g), Abs(x.b - y.b)))

\* C1: converting an 8-bit colour to XYZ and back changes no channel by more
\* than 2, and converting it to LAB, LCH or OKLAB and back changes no channel
\* by more than 3.
RoundTripWithinTolerance ==
    op = "to_rgb" =>
        ChannelDiff(result, color) <= (IF space.type = "XYZ" THEN 2 ELSE 3)

-----------------------------------------------------------------------------
(* Gamma correction                                                        *)

\* the lambda gamma_correct of apply_gamma: the cast to uint8_t truncates
apply_gamma_channel(val, gamma) ==
    LET normalized == Ratio(val, 255)
        corrected == Pow(normalized, Div(S, gamma))
    IN Trunc(Clamp(corrected * 255, 0, 255 * S))

\* the lambda gamma_remove of remove_gamma
remove_gamma_channel(val, gamma) ==
    LET normalized == Ratio(val, 255)
        linear == Pow(normalized, gamma)
    IN Trunc(Clamp(linear * 255, 0, 255 * S))

apply_gamma(c, gamma) ==
    RGB(apply_gamma_channel(c.r, gamma), apply_gamma_channel(c.g, gamma),
        apply_gamma_channel(c.b, gamma), c.a)

remove_gamma(c, gamma) ==
    RGB(remove_gamma_channel(c.r, gamma), remove_gamma_channel(c.g, gamma),
        remove_gamma_channel(c.b, gamma), c.a)

\* colours and exponents tried: gamma 1.0, 2.2 (the default), 0.5 and 2.0
GammaR == {0, 3, 128, 244, 255}
GammaG == {64, 200}
GammaA == {255, 77}
Gammas == {Dec(1, 0), Dec(2, 2000000), Dec(0, 5000000), Dec(2, 0)}

GammaInit ==
    /\ op = "init"
    /\ color \in {RGB(r, g, 192, a) : r \in GammaR, g \in GammaG, a \in GammaA}
    /\ param \in Gammas
    /\ other = RGB_default
    /\ space = NoSpace
    /\ result = RGB_default
    /\ hsl = HSL_default
    /\ trail = <<>>
    /\ palette = <<>>
    /\ output = <<>>
    /\ scalar = 0

GammaFrame == UNCHANGED <<color, other, param, space, hsl, trail, palette, output, scalar>>

\* c.apply_gamma(g)
ApplyGamma ==
    /\ op = "init"
    /\ result' = apply_gamma(color, param)
    /\ op' = "apply_gamma"
    /\ GammaFrame

\* c.remove_gamma(g)
RemoveGamma ==
    /\ op = "init"
    /\ result' = remove_gamma(color, param)
    /\ op' = "remove_gamma"
    /\ GammaFrame

\* c.apply_gamma(g).remove_gamma(g): the second call of the chain
RemoveAppliedGamma ==
    /\ op = "apply_gamma"
    /\ result' = remove_gamma(result, param)
    /\ op' = "apply_remove"
    /\ GammaFrame

GammaNext ==
    \/ ApplyGamma
    \/ RemoveGamma
    \/ RemoveAppliedGamma

SpecGamma == GammaInit /\ [][GammaNext]_vars

\* C2: for every gamma g > 0, c.apply_gamma(g).remove_gamma(g) differs from c
\* by at most 2 in each of r, g, b and keeps alpha; with g = 1.0 apply_gamma
\* and remove_gamma each return c exactly.
GammaRoundTripWithinTwo ==
    /\ op = "apply_remove" =>
           (ChannelDiff(result, color) <= 2 /\ result.a = color.a)
    /\ (param = S /\ op \in {"apply_gamma", "remove_gamma"}) => result = color

-----------------------------------------------------------------------------
(* HSL: hue in hundredths of a degree (uint16_t), s, l, alpha in 0..255     *)
(* An angle passed as a double is held in eighths of a degree, which a      *)
(* double represents exactly, as is its product with 100.                   *)

EIGHTHS == 2 * 4
INT_MAX == 2147483647
INT_MIN == -INT_MAX - 1
FULL_TURN == 36000

\* the operator % of C++ on int: the remainder has the sign of the dividend
CRem(a, n) ==
    LET r == a % n
    IN IF a >= 0 \/ r = 0 THEN r ELSE r - n

\* static_cast<uint16_t>(int)
ToUint16(n) == n % 65536

\* ((x % 36000) + 36000) % 36000 on int
WrapHue(x) == CRem(CRem(x, FULL_TURN) + FULL_TURN, FULL_TURN)

\* static_cast<int>(degrees * 100): truncation when the product fits an int;
\* otherwise the conversion is undefined and yields what the target's
\* conversion instruction yields: INT_MIN (x86 cvttsd2si) or the saturated
\* value (ARM fcvtzs)
DegreesToInt(degrees) ==
    IF Abs(degrees) <= (INT_MAX \div 25) * 2 + 1
    THEN {TDiv(degrees, 2) * 25 + Sgn(degrees) * (((Abs(degrees) % 2) * 25) \div 2)}
    ELSE {INT_MIN, IF degrees > 0 THEN INT_MAX ELSE INT_MIN}

\* h + n on int for a hue h >= 0: a sum above INT_MAX wraps (two's complement)
IntAdd(h, n) ==
    IF n > INT_MAX - h THEN (n - INT_MAX) + (h - INT_MAX) - 2 ELSE h + n

\* HSL::normalize; s, l and alpha are clamped to the range they already have
HSL_normalize(x) ==
    [x EXCEPT !.h = ToUint16(WrapHue(x.h)),
              !.s = Clamp(x.s, 0, 255),
              !.l = Clamp(x.l, 0, 255),
              !.alpha = Clamp(x.alpha, 0, 255)]

\* HSL(double h_, double s_, double l_, uint8_t a_): h_ in eighths of a degree
HSL(h_, s_, l_, a_) ==
    LET fmod_h == CRem(h_, 360 * EIGHTHS)
        normalized_h == IF fmod_h < 0 THEN fmod_h + 360 * EIGHTHS ELSE fmod_h
    IN HSL_normalize([h |-> ToUint16((normalized_h * 100) \div EIGHTHS),
                      s |-> Trunc(Clamp(s_, 0, S) * 255),
                      l |-> Trunc(Clamp(l_, 0, S) * 255),
                      alpha |-> a_])

\* IEEE-754 doubles, exactly.  A natural number is the sequence of
\* its digits in base LIMB, least significant first, without leading zeros
\* (0 is <<>>); a double >= 0 is [m, e] with value m * 2^e and m below 2^53.
LIMB_BITS == 13
LIMB == 2 ^ LIMB_BITS
MANTISSA == 53

RECURSIVE BigTrim(_)
BigTrim(x) ==
    IF x # <<>> /\ x[Len(x)] = 0 THEN BigTrim(SubSeq(x, 1, Len(x) - 1)) ELSE x

Big(n) == BigTrim(<<n % LIMB, (n \div LIMB) % LIMB, n \div (LIMB * LIMB)>>)

\* the digit i of x
Digit(x, i) == IF i <= Len(x) THEN x[i] ELSE 0

RECURSIVE BigAddFrom(_, _, _, _)
BigAddFrom(x, y, i, carry) ==
    IF i > Len(x) /\ i > Len(y)
    THEN IF carry = 0 THEN <<>> ELSE <<carry>>
    ELSE CHOOSE r \in {<<t % LIMB>> \o BigAddFrom(x, y, i + 1, t \div LIMB) :
                          t \in {Digit(x, i) + Digit(y, i) + carry}} : TRUE

BigAdd(x, y) == BigAddFrom(x, y, 1, 0)

\* x - y for x >= y
RECURSIVE BigSubFrom(_, _, _, _)
BigSubFrom(x, y, i, borrow) ==
    IF i > Len(x) THEN <<>>
    ELSE CHOOSE r \in {<<t % LIMB>> \o BigSubFrom(x, y, i + 1, IF t < 0 THEN 1 ELSE 0) :
                          t \in {Digit(x, i) - Digit(y, i) - borrow}} : TRUE

BigSub(x, y) == BigTrim(BigSubFrom(x, y, 1, 0))

\* x < y
BigLess(x, y) ==
    \/ Len(x) < Len(y)
    \/ /\ Len(x) = Len(y)
       /\ \E i \in 1..Len(x) :
              x[i] < y[i] /\ \A j \in (i + 1)..Len(x) : x[j] = y[j]

\* x * k for 0 <= k < LIMB
RECURSIVE BigTimesFrom(_, _, _, _)
BigTimesFrom(x, k, i, carry) ==
    IF i > Len(x) THEN IF carry = 0 THEN <<>> ELSE <<carry>>
    ELSE CHOOSE r \in {<<t % LIMB>> \o BigTimesFrom(x, k, i + 1, t \div LIMB) :
                          t \in {x[i] * k + carry}} : TRUE

BigTimes(x, k) == IF k = 0 THEN <<>> ELSE BigTimesFrom(x, k, 1, 0)

\* x * LIMB^n
BigUp(x, n) == IF x = <<>> THEN <<>> ELSE [i \in 1..n |-> 0] \o x

RECURSIVE BigMulFrom(_, _, _)
BigMulFrom(x, y, i) ==
    IF i > Len(y) THEN <<>>
    ELSE BigAdd(BigUp(BigTimes(x, y[i]), i - 1), BigMulFrom(x, y, i + 1))

BigMul(x, y) == BigMulFrom(x, y, 1)

\* the number of bits of x
BigBits(x) ==
    IF x = <<>> THEN 0
    ELSE (Len(x) - 1) * LIMB_BITS
           + (CHOOSE k \in 1..LIMB_BITS : 2 ^ (k - 1) <= x[Len(x)] /\ x[Len(x)] < 2 ^ k)

\* x * 2^k for k >= 0
BigShl(x, k) == BigUp(BigTimes(x, 2 ^ (k % LIMB_BITS)), k \div LIMB_BITS)

\* floor(x / 2^k) for k >= 0
BigShr(x, k) ==
    CHOOSE r \in
        {BigTrim([i \in 1..(Len(x) - q) |->
                     x[i + q] \div 2 ^ s + (Digit(x, i + q + 1) % 2 ^ s) * 2 ^ (LIMB_BITS - s)]) :
            q \in {k \div LIMB_BITS}, s \in {k % LIMB_BITS}} : TRUE

\* the bit k of x (bit 0 the lowest)
BigBit(x, k) == (Digit(x, k \div LIMB_BITS + 1) \div 2 ^ (k % LIMB_BITS)) % 2

\* some bit of x below bit k is a one
BigAnyBelow(x, k) ==
    \/ \E i \in 1..Len(x) : i <= k \div LIMB_BITS /\ x[i] # 0
    \/ Digit(x, k \div LIMB_BITS + 1) % 2 ^ (k % LIMB_BITS) # 0

\* the greatest q in lo..hi with d * q <= r
RECURSIVE QuotientDigit(_, _, _, _)
QuotientDigit(r, d, lo, hi) ==
    IF lo = hi THEN lo
    ELSE CHOOSE q \in {IF BigLess(r, BigTimes(d, mid))
                         THEN QuotientDigit(r, d, lo, mid - 1)
                         ELSE QuotientDigit(r, d, mid, hi) :
                           mid \in {(lo + hi + 1) \div 2}} : TRUE

\* long division of x by d from the digit i down: <<quotient, remainder>>
RECURSIVE BigDivFrom(_, _, _, _, _)
BigDivFrom(x, d, i, quotient, remainder) ==
    IF i = 0 THEN <<BigTrim(quotient), remainder>>
    ELSE CHOOSE r \in
           {BigDivFrom(x, d, i - 1, <<rq[2]>> \o quotient,
                       BigSub(rq[1], BigTimes(d, rq[2]))) :
                rq \in {<<r1, QuotientDigit(r1, d, 0, LIMB - 1)>> :
                           r1 \in {BigTrim(<<x[i]>> \o remainder)}}} : TRUE

BigDivMod(x, d) == BigDivFrom(x, d, Len(x), <<>>, <<>>)

\* the double nearest to n * 2^e (ties to even); sticky tells that the exact
\* value is above n * 2^e by less than 2^e
RoundToDouble(n, e, sticky) ==
    IF n = <<>> THEN [m |-> <<>>, e |-> 0]
    ELSE CHOOSE d \in
        {IF cut <= 0 THEN [m |-> n, e |-> e]
         ELSE CHOOSE d2 \in
                {IF BigBit(n, cut - 1) = 1
                     /\ (sticky \/ BigAnyBelow(n, cut - 1) \/ BigBit(n, cut) = 1)
                   THEN (IF BigBits(BigAdd(kept, <<1>>)) > MANTISSA
                           THEN [m |-> BigShr(BigAdd(kept, <<1>>), 1), e |-> e + cut + 1]
                           ELSE [m |-> BigAdd(kept, <<1>>), e |-> e + cut])
                   ELSE [m |-> kept, e |-> e + cut] :
                     kept \in {BigShr(n, cut)}} : TRUE :
            cut \in {BigBits(n) - MANTISSA}} : TRUE

\* the double of an integer 0 <= n < 2^31
Double(n) == [m |-> Big(n), e |-> 0]

\* x + y on doubles
DoubleSum(x, y) ==
    IF x.m = <<>> THEN y ELSE IF y.m = <<>> THEN x
    ELSE CHOOSE d \in
        {RoundToDouble(BigAdd(BigShl(x.m, x.e - lo), BigShl(y.m, y.e - lo)), lo, FALSE) :
            lo \in {Min(x.e, y.e)}} : TRUE

\* x - y on doubles, x >= y
DoubleDifference(x, y) ==
    IF y.m = <<>> THEN x
    ELSE CHOOSE d \in
        {RoundToDouble(BigSub(BigShl(x.m, x.e - lo), BigShl(y.m, y.e - lo)), lo, FALSE) :
            lo \in {Min(x.e, y.e)}} : TRUE

\* x * y on doubles
DoubleProduct(x, y) == RoundToDouble(BigMul(x.m, y.m), x.e + y.e, FALSE)

\* x / y on doubles, y > 0: a quotient of at least 55 bits, then rounding
DoubleQuotient(x, y) ==
    IF x.m = <<>> THEN x
    ELSE CHOOSE d \in
        {RoundToDouble(kqr[2], x.e - y.e - kqr[1], kqr[3] # <<>>) :
            kqr \in {<<k>> \o BigDivMod(BigShl(x.m, k), y.m) :
                        k \in {MANTISSA + 2 + BigBits(y.m) - BigBits(x.m)}}} : TRUE

\* x < y on doubles
DoubleLess(x, y) ==
    IF y.m = <<>> THEN FALSE ELSE IF x.m = <<>> THEN TRUE
    ELSE CHOOSE b \in {BigLess(BigShl(x.m, x.e - lo), BigShl(y.m, y.e - lo)) :
                          lo \in {Min(x.e, y.e)}} : TRUE

\* static_cast<int>(x) for a double 0 <= x < 2^31
DoubleToInt(x) ==
    IF x.m = <<>> THEN 0
    ELSE CHOOSE n \in {Digit(t, 1) + Digit(t, 2) * LIMB + Digit(t, 3) * LIMB * LIMB :
                          t \in {IF x.e >= 0 THEN BigShl(x.m, x.e) ELSE BigShr(x.m, -x.e)}} : TRUE

\* static_cast<uint8_t>(lightness * 255) with lightness = (max_val + min_val) / 2.0
\* on doubles
LightnessByte(max_channel, min_channel) ==
    DoubleToInt(
        DoubleProduct(
            DoubleQuotient(DoubleSum(DoubleQuotient(Double(max_channel), Double(255)),
                                     DoubleQuotient(Double(min_channel), Double(255))),
                           Double(2)),
            Double(255)))

\* static_cast<uint16_t>(hue * 100) for 0 <= hue < 2000
HueTimes100(hue) == (hue \div S) * 100 + ((hue % S) * 100) \div S

\* HSL::fromRGB
HSL_fromRGB(rgb) ==
    LET r_val == Ratio(rgb.r, 255)
        g_val == Ratio(rgb.g, 255)
        b_val == Ratio(rgb.b, 255)
        max_val == Max(r_val, Max(g_val, b_val))
        min_val == Min(r_val, Min(g_val, b_val))
        delta == max_val - min_val
        lightness == (max_val + min_val) \div 2
        hsl_l == LightnessByte(Max(rgb.r, Max(rgb.g, rgb.b)),
                               Min(rgb.r, Min(rgb.g, rgb.b)))
        saturation == IF lightness > S \div 2
                      THEN Div(delta, 2 * S - max_val - min_val)
                      ELSE Div(delta, max_val + min_val)
        sector == IF max_val = r_val
                  THEN Div(g_val - b_val, delta) + (IF g_val < b_val THEN 6 * S ELSE 0)
                  ELSE IF max_val = g_val
                  THEN Div(b_val - r_val, delta) + 2 * S
                  ELSE Div(r_val - g_val, delta) + 4 * S
        hue == (sector \div 6) * 360
    IN HSL_normalize(
           IF delta = 0
           THEN [h |-> 0, s |-> 0, l |-> hsl_l, alpha |-> rgb.a]
           ELSE [h |-> ToUint16(HueTimes100(hue)),
                 s |-> Trunc(saturation * 255),
                 l |-> hsl_l,
                 alpha |-> rgb.a])

\* HSL::adjust_hue(degrees): the results the build can produce
adjust_hue(x, degrees) ==
    {[x EXCEPT !.h = ToUint16(WrapHue(IntAdd(x.h, n)))] : n \in DegreesToInt(degrees)}

\* HSL::complement
complement(x) == adjust_hue(x, 180 * EIGHTHS)

\* HSL::triadic
triadic(x) ==
    {<<x, y, z>> : y \in adjust_hue(x, 120 * EIGHTHS), z \in adjust_hue(x, 240 * EIGHTHS)}

\* HSL::analogous(angle)
analogous(x, angle) ==
    {<<y, x, z>> : y \in adjust_hue(x, -angle), z \in adjust_hue(x, angle)}

\* HSL::split_complementary(angle)
split_complementary(x, angle) ==
    {<<x, y, z>> : y \in adjust_hue(x, 180 * EIGHTHS - angle),
                   z \in adjust_hue(x, 180 * EIGHTHS + angle)}

\* the hue rotations tried, in eighths of a degree: 0.125, 0.25, -90, 360,
\* -720 and 36,000,000 degrees (100,000 full turns)
HueAngles == {1, 2, -90 * EIGHTHS, 360 * EIGHTHS, -720 * EIGHTHS, 100000 * 360 * EIGHTHS}
HarmonyAngles == {30 * EIGHTHS, 100000 * 360 * EIGHTHS}
\* arguments of the numeric constructor: -0.125, 1800.875 and -36,000,000.125 degrees
CtorHues == {-1, 5 * 360 * EIGHTHS + 7, -100000 * 360 * EIGHTHS - 1}
HueColors ==
    {RGB(255, 0, 0, 255), RGB(0, 255, 0, 255), RGB(128, 128, 128, 255),
     RGB(128, 64, 192, 255), RGB(255, 128, 0, 255), RGB(255, 0, 128, 77)}
\* the longest chain of adjust_hue calls on one object
MaxRotations == 3

HueInit ==
    /\ op = "init"
    /\ hsl = HSL_default
    /\ color = RGB_default
    /\ other = RGB_default
    /\ param = 0
    /\ space = HSL_default
    /\ result = RGB_default
    /\ trail = <<>>
    /\ palette = <<>>
    /\ output = <<>>
    /\ scalar = 0

HueFrame == UNCHANGED <<other, result, palette>>

\* x = HSL(h_, s_, l_, a_)
ConstructHSL ==
    /\ op = "init"
    /\ \E h_ \in CtorHues, a_ \in {255, 0} :
           /\ hsl' = HSL(h_, S \div 2, 2 * S, a_)
           /\ param' = h_
    /\ op' = "HSL"
    /\ scalar' = hsl'.h
    /\ trail' = <<>>
    /\ output' = <<>>
    /\ UNCHANGED <<color, space>>
    /\ HueFrame

\* x = HSL::fromRGB(rgb)
HSLfromRGB ==
    /\ op = "init"
    /\ \E rgb \in HueColors :
           /\ color' = rgb
           /\ hsl' = HSL_fromRGB(rgb)
    /\ op' = "fromRGB"
    /\ scalar' = hsl'.h
    /\ trail' = <<>>
    /\ output' = <<>>
    /\ UNCHANGED <<param, space>>
    /\ HueFrame

\* x.normalize()
NormalizeHSL ==
    /\ op \notin {"init", "normalize"}
    /\ space' = hsl
    /\ hsl' = HSL_normalize(hsl)
    /\ op' = "normalize"
    /\ output' = <<>>
    /\ UNCHANGED <<color, param, trail, scalar>>
    /\ HueFrame

\* x = x.adjust_hue(degrees)
AdjustHue ==
    /\ Len(trail) < MaxRotations
    /\ \E degrees \in HueAngles :
           /\ hsl' \in adjust_hue(hsl, degrees)
           /\ param' = degrees
           /\ trail' = Append(trail, degrees)
    /\ space' = hsl
    /\ op' = "adjust_hue"
    /\ output' = <<>>
    /\ UNCHANGED <<color, scalar>>
    /\ HueFrame

\* x = x.complement()
Complement ==
    /\ Len(trail) < MaxRotations
    /\ hsl' \in complement(hsl)
    /\ param' = 180 * EIGHTHS
    /\ trail' = Append(trail, 180 * EIGHTHS)
    /\ space' = hsl
    /\ op' = "complement"
    /\ output' = <<>>
    /\ UNCHANGED <<color, scalar>>
    /\ HueFrame

\* x.triadic()
Triadic ==
    /\ op \notin {"triadic", "analogous", "split_complementary"}
    /\ output' \in triadic(hsl)
    /\ op' = "triadic"
    /\ UNCHANGED <<hsl, color, param, space, trail, scalar>>
    /\ HueFrame

\* x.analogous(angle)
Analogous ==
    /\ op \notin {"triadic", "analogous", "split_complementary"}
    /\ \E angle \in HarmonyAngles :
           /\ output' \in analogous(hsl, angle)
           /\ param' = angle
    /\ op' = "analogous"
    /\ UNCHANGED <<hsl, color, space, trail, scalar>>
    /\ HueFrame

\* x.split_complementary(angle)
SplitComplementary ==
    /\ op \notin {"triadic", "analogous", "split_complementary"}
    /\ \E angle \in HarmonyAngles :
           /\ output' \in split_complementary(hsl, angle)
           /\ param' = angle
    /\ op' = "split_complementary"
    /\ UNCHANGED <<hsl, color, space, trail, scalar>>
    /\ HueFrame

HueNext ==
    \/ ConstructHSL
    \/ HSLfromRGB
    \/ NormalizeHSL
    \/ AdjustHue
    \/ Complement
    \/ Triadic
    \/ Analogous
    \/ SplitComplementary

SpecHue == HueInit /\ [][HueNext]_vars

\* C3: after the numeric constructor, fromRGB, normalize and any sequence of
\* adjust_hue / complement / triadic / analogous / split_complementary calls
\* the stored hue is in [0, 36000); adjust_hue(deg) yields
\* (h + trunc(deg * 100)) mod 36000 with a non-negative modulus; and a rotation
\* by a whole multiple of 360 degrees returns an HSL equal to the original.
HueNormalizedAndRotationExact ==
    LET hundredths == ((TDiv(param, 2) % (FULL_TURN \div 25)) * 25
                       + Sgn(param) * (((Abs(param) % 2) * 25) \div 2)) % FULL_TURN
    IN /\ op # "init" => hsl.h \in 0..(FULL_TURN - 1)
       /\ \A i \in DOMAIN output : output[i].h \in 0..(FULL_TURN - 1)
       /\ op \in {"adjust_hue", "complement"} =>
              hsl.h = (space.h + hundredths) % FULL_TURN
       /\ (op = "adjust_hue" /\ param % (360 * EIGHTHS) = 0) => hsl = space

RECURSIVE SumAngles(_)
SumAngles(angles) ==
    IF angles = <<>> THEN 0 ELSE Head(angles) + SumAngles(Tail(angles))

\* C4: after any finite sequence of adjust_hue calls the hue equals the hue one
\* adjust_hue call with the sum of the angles gives the starting colour, so
\* rotations summing to a multiple of 360 degrees restore the hue (stated for
\* sequences in which every angle, and the sum, times 100 fits an int).
RotationsEqualOneRotationBySum ==
    (/\ op \in {"adjust_hue", "complement"}
     /\ \A i \in DOMAIN trail : Cardinality(DegreesToInt(trail[i])) = 1
     /\ Cardinality(DegreesToInt(SumAngles(trail))) = 1)
        => hsl \in adjust_hue([hsl EXCEPT !.h = scalar], SumAngles(trail))

-----------------------------------------------------------------------------
(* RGB arithmetic                                                          *)

\* the sum of each channel pair taken in uint8_t, which wraps modulo 256
RGB_plus_wrapping(x, y) ==
    RGB((x.r + y.r) % 256, (x.g + y.g) % 256, (x.b + y.b) % 256, (x.a + y.a) % 256)

\* RGB::operator+
RGB_plus(x, y) ==
    RGB(Clamp(x.r + y.r, 0, 255), Clamp(x.g + y.g, 0, 255),
        Clamp(x.b + y.b, 0, 255), Clamp(x.a + y.a, 0, 255))

\* RGB::operator-
RGB_minus(x, y) ==
    RGB(Clamp(x.r - y.r, 0, 255), Clamp(x.g - y.g, 0, 255),
        Clamp(x.b - y.b, 0, 255), Clamp(x.a - y.a, 0, 255))

\* one argument of the constructor call in operator*
ScaleChannel(c, factor) ==
    IF c * factor > 255 * S THEN 255
    ELSE IF c * factor < 0 THEN 0
    ELSE Trunc(c * factor)

\* RGB::operator*(double factor): a() is passed through
RGB_times(x, factor) ==
    RGB(ScaleChannel(x.r, factor), ScaleChannel(x.g, factor), ScaleChannel(x.b, factor), x.a)

\* the operands and factors tried: 0, 0.25, 0.5, 1, 1.5, 2 and -1
ArithColors == {RGB(r, 50, 255, a) : r \in {0, 100, 200, 255}, a \in {0, 128, 255}}
Factors == {0, S \div 4, S \div 2, S, (3 * S) \div 2, 2 * S, -S}

ArithInit ==
    /\ op = "init"
    /\ color \in ArithColors
    /\ other \in ArithColors
    /\ param = 0
    /\ space = color
    /\ result = RGB_default
    /\ hsl = HSL_default
    /\ trail = <<>>
    /\ palette = <<>>
    /\ output = <<>>
    /\ scalar = 0

\* result = x + y
Plus ==
    /\ op = "init"
    /\ result' = RGB_plus(color, other)
    /\ op' = "+"
    /\ UNCHANGED <<color, other, param, space, hsl, trail, palette, output, scalar>>

\* result = x - y
Minus ==
    /\ op = "init"
    /\ result' = RGB_minus(color, other)
    /\ op' = "-"
    /\ UNCHANGED <<color, other, param, space, hsl, trail, palette, output, scalar>>

\* x += y: *this = *this + other; return *this
PlusAssign ==
    /\ op = "init"
    /\ color' = RGB_plus(color, other)
    /\ result' = color'
    /\ op' = "+="
    /\ UNCHANGED <<other, param, space, hsl, trail, palette, output, scalar>>

\* result = x * factor
Multiply ==
    /\ op = "init"
    /\ \E factor \in Factors :
           /\ result' = RGB_times(color, factor)
           /\ param' = factor
    /\ op' = "*"
    /\ UNCHANGED <<color, other, space, hsl, trail, palette, output, scalar>>

\* x *= factor: *this = *this * factor; return *this
MultiplyAssign ==
    /\ op = "init"
    /\ \E factor \in Factors :
           /\ color' = RGB_times(color, factor)
           /\ param' = factor
    /\ result' = color'
    /\ op' = "*="
    /\ UNCHANGED <<other, space, hsl, trail, palette, output, scalar>>

ArithNext ==
    \/ Plus
    \/ Minus
    \/ PlusAssign
    \/ Multiply
    \/ MultiplyAssign

SpecArith == ArithInit /\ [][ArithNext]_vars

Channels == {"r", "g", "b", "a"}

\* C5: every channel of x + y is min(255, x.c + y.c), every channel of x - y
\* is max(0, x.c - y.c), nothing wraps modulo 256, and += leaves in x, and
\* returns, what + returns.
PlusMinusSaturate ==
    /\ op = "+" => \A c \in Channels : result[c] = Min(255, color[c] + other[c])
    /\ op = "-" => \A c \in Channels : result[c] = Max(0, color[c] - other[c])
    /\ op = "+=" =>
           /\ \A c \in Channels : color[c] = Min(255, space[c] + other[c])
           /\ result = color

\* a sum whose alpha, and a red channel, went past 255 and stopped there
PlusSaturated ==
    /\ op = "+"
    /\ color.a + other.a > 255
    /\ color.r + other.r > 255
    /\ result.a = 255
    /\ result.r = 255

\* C6: every channel of x * f, alpha included, is the channel times f,
\* truncated, 0 when negative and 255 when above 255.
TimesSaturatesAllFour ==
    op \in {"*", "*="} =>
        \A c \in Channels :
            result[c] = Clamp(TDiv(space[c] * param, S), 0, 255)

-----------------------------------------------------------------------------
(* Distances                                                               *)

\* std::sqrt(x*x + y*y + z*z - w*w): the squares are taken of the terms
\* divided by 2m, m the largest magnitude, to stay inside 32 bits
Norm(x, y, z, w) ==
    CHOOSE d \in {LET m == Max(Max(Abs(v[1]), Abs(v[2])), Max(Abs(v[3]), Abs(v[4]))) \div 2
                  IN IF m = 0 THEN 0
                     ELSE LET p == Div(TDiv(v[1], 2), m)
                              q == Div(TDiv(v[2], 2), m)
                              r == Div(TDiv(v[3], 2), m)
                              s == Div(TDiv(v[4], 2), m)
                          IN 2 * Mul(m, Sqrt(Mul(p, p) + Mul(q, q) + Mul(r, r) - Mul(s, s))) :
                  v \in {<<x, y, z, w>>}} : TRUE

RECURSIVE ISqrtIter(_, _)
ISqrtIter(n, y) ==
    CHOOSE r \in {IF z >= y THEN y ELSE ISqrtIter(n, z) :
                      z \in {(y + n \div y) \div 2}} : TRUE

\* rgb_distance: dr*dr + dg*dg + db*db is an exact integer and its root is
\* taken down to hundredths, which orders it against any threshold given in
\* hundredths as the double does
rgb_distance(color1, color2) ==
    LET dr == color1.r - color2.r
        dg == color1.g - color2.g
        db == color1.b - color2.b
        sum == dr * dr + dg * dg + db * db
    IN CHOOSE d \in {IF n = 0 THEN 0 ELSE ISqrtIter(n * 10000, 46340) * (S \div 100) :
                         n \in {sum}} : TRUE

\* LAB::delta_e (CIE76)
delta_e(x, y) == Norm(x.l - y.l, x.a - y.a, x.b - y.b, 0)

\* color_distance
color_distance(color1, color2) ==
    CHOOSE d \in {delta_e(lab1, lab2) :
                  lab1 \in {LAB_fromRGB(color1)}, lab2 \in {LAB_fromRGB(color2)}} : TRUE

\* LAB::delta_e_2000: sc and sh are taken from this colour's chroma c1 alone
delta_e_2000(x, y) ==
    LET dl == x.l - y.l
        da == x.a - y.a
        db == x.b - y.b
        c1 == Hypot(x.a, x.b)
        c2 == Hypot(y.a, y.b)
        dc == c1 - c2
        dh == Norm(da, db, 0, dc)
        sc == S + Mul(Dec(0, 450000), c1)
        sh == S + Mul(Dec(0, 150000), c1)
    IN Norm(dl, Div(dc, sc), Div(dh, sh), 0)

\* LCH::distance: the hue term weighs the mean chroma by the other colour's
LCH_distance(x, y) ==
    LET dl == x.l - y.l
        dc == x.c - y.c
        dh0 == x.h - y.h
        dh == IF Abs(dh0) > 180 * S
              THEN (IF dh0 > 0 THEN dh0 - 360 * S ELSE dh0 + 360 * S)
              ELSE dh0
        avg_c == (x.c + y.c) \div 2
        dh_weighted == 2 * Mul(Mul(Sqrt(avg_c), Sqrt(y.c)), Sin(TDiv(Mul(dh, PI), 360)))
    IN Norm(dl, dc, dh_weighted, 0)

\* OKLAB::distance
OKLAB_distance(x, y) == Norm(x.l - y.l, x.a - y.a, x.b - y.b, 0)

\* the colours measured
DistColors ==
    {RGB(255, 0, 0, 255), RGB(0, 255, 0, 255), RGB(0, 0, 255, 255),
     RGB(128, 128, 128, 255), RGB(128, 64, 192, 255), RGB(13, 253, 253, 255)}

DistInit ==
    /\ op = "init"
    /\ color \in DistColors
    /\ other \in DistColors
    /\ param = 0
    /\ space = NoSpace
    /\ result = RGB_default
    /\ hsl = HSL_default
    /\ trail = <<>>
    /\ palette = <<>>
    /\ output = <<>>
    /\ scalar = 0

\* output = <<d(x, y), d(y, x), d(x, x)>> for d = rgb_distance
MeasureRgbDistance ==
    /\ op = "init"
    /\ output' = <<rgb_distance(color, other), rgb_distance(other, color),
                   rgb_distance(color, color)>>
    /\ op' = "rgb_distance"
    /\ UNCHANGED <<color, other, param, space, result, hsl, trail, palette, scalar>>

\* the same three calls of color_distance
MeasureColorDistance ==
    /\ op = "init"
    /\ output' = <<color_distance(color, other), color_distance(other, color),
                   color_distance(color, color)>>
    /\ op' = "color_distance"
    /\ UNCHANGED <<color, other, param, space, result, hsl, trail, palette, scalar>>

\* the same three calls of LAB::delta_e_2000 on LAB::fromRGB of the colours
MeasureDeltaE2000 ==
    /\ op = "init"
    /\ \E x \in {LAB_fromRGB(color)}, y \in {LAB_fromRGB(other)} :
           output' = <<delta_e_2000(x, y), delta_e_2000(y, x), delta_e_2000(x, x)>>
    /\ op' = "delta_e_2000"
    /\ UNCHANGED <<color, other, param, space, result, hsl, trail, palette, scalar>>

\* the same three calls of LCH::distance on LCH::fromRGB of the colours
MeasureLCHDistance ==
    /\ op = "init"
    /\ \E x \in {LCH_fromRGB(color)}, y \in {LCH_fromRGB(other)} :
           output' = <<LCH_distance(x, y), LCH_distance(y, x), LCH_distance(x, x)>>
    /\ op' = "LCH::distance"
    /\ UNCHANGED <<color, other, param, space, result, hsl, trail, palette, scalar>>

\* the same three calls of OKLAB::distance on OKLAB::fromRGB of the colours
MeasureOKLABDistance ==
    /\ op = "init"
    /\ \E x \in {OKLAB_fromRGB(color)}, y \in {OKLAB_fromRGB(other)} :
           output' = <<OKLAB_distance(x, y), OKLAB_distance(y, x), OKLAB_distance(x, x)>>
    /\ op' = "OKLAB::distance"
    /\ UNCHANGED <<color, other, param, space, result, hsl, trail, palette, scalar>>

DistNext ==
    \/ MeasureRgbDistance
    \/ MeasureColorDistance
    \/ MeasureDeltaE2000
    \/ MeasureLCHDistance
    \/ MeasureOKLABDistance

SpecDist == DistInit /\ [][DistNext]_vars

\* C7: rgb_distance, color_distance, LAB::delta_e_2000, LCH::distance and
\* OKLAB::distance are each zero on identical inputs and symmetric:
\* d(x, x) = 0 and d(x, y) = d(y, x).
DistancesZeroAndSymmetric ==
    op # "init" => (output[3] = 0 /\ output[1] = output[2])

-----------------------------------------------------------------------------
(* Palette utilities, utils.hpp                                            *)

\* the scan of find_closest_color from palette[k] on, with <= where the code
\* has <: among equally close colours the last one wins
RECURSIVE find_closest_last_from(_, _, _, _, _)
find_closest_last_from(target, colors, k, closest, min_distance) ==
    IF k > Len(colors) THEN closest
    ELSE CHOOSE r \in
           {IF distance <= min_distance
              THEN find_closest_last_from(target, colors, k + 1, colors[k], distance)
              ELSE find_closest_last_from(target, colors, k + 1, closest, min_distance) :
                distance \in {color_distance(target, colors[k])}} : TRUE

find_closest_color_last_tie(target, colors) ==
    IF colors = <<>> THEN target
    ELSE CHOOSE r \in {find_closest_last_from(target, colors, 1, colors[1], d) :
                           d \in {color_distance(target, colors[1])}} : TRUE

\* the for loop of find_closest_color from palette[k] on
RECURSIVE find_closest_from(_, _, _, _, _)
find_closest_from(target, colors, k, closest, min_distance) ==
    IF k > Len(colors) THEN closest
    ELSE CHOOSE r \in
           {IF distance < min_distance
              THEN find_closest_from(target, colors, k + 1, colors[k], distance)
              ELSE find_closest_from(target, colors, k + 1, closest, min_distance) :
                distance \in {color_distance(target, colors[k])}} : TRUE

find_closest_color(target, colors) ==
    IF colors = <<>> THEN target
    ELSE CHOOSE r \in {find_closest_from(target, colors, 1, colors[1], d) :
                           d \in {color_distance(target, colors[1])}} : TRUE

\* the inner loop of remove_duplicates with the comparison turned round
is_duplicate_inverted(c, unique_colors, threshold) ==
    \E k \in 1..Len(unique_colors) : rgb_distance(c, unique_colors[k]) >= threshold

\* the inner loop of remove_duplicates with <= for <
is_duplicate_at_most(c, unique_colors, threshold) ==
    \E k \in 1..Len(unique_colors) : rgb_distance(c, unique_colors[k]) <= threshold

\* the inner loop of remove_duplicates: is_duplicate after the scan
is_duplicate(c, unique_colors, threshold) ==
    \E k \in 1..Len(unique_colors) : rgb_distance(c, unique_colors[k]) < threshold

\* remove_duplicates comparing a colour with the last kept colour only
RECURSIVE remove_duplicates_last_kept(_, _, _, _)
remove_duplicates_last_kept(colors, threshold, k, unique_colors) ==
    IF k > Len(colors) THEN unique_colors
    ELSE CHOOSE r \in
           {remove_duplicates_last_kept(colors, threshold, k + 1, u) :
                u \in {IF /\ unique_colors # <<>>
                          /\ rgb_distance(colors[k], unique_colors[Len(unique_colors)])
                                 < threshold
                         THEN unique_colors
                         ELSE Append(unique_colors, colors[k])}} : TRUE

\* the outer loop of remove_duplicates from palette[k] on
RECURSIVE remove_duplicates_from(_, _, _, _)
remove_duplicates_from(colors, threshold, k, unique_colors) ==
    IF k > Len(colors) THEN unique_colors
    ELSE CHOOSE r \in
           {remove_duplicates_from(colors, threshold, k + 1, u) :
                u \in {IF is_duplicate(colors[k], unique_colors, threshold)
                         THEN unique_colors
                         ELSE Append(unique_colors, colors[k])}} : TRUE

remove_duplicates(colors, threshold) == remove_duplicates_from(colors, threshold, 1, <<>>)

\* palettes hold at most MaxPalette colours
MaxPalette == 4

\* (9,0,0) with two alphas: the same LAB, so equally far from any target
PaletteColors ==
    {RGB(9, 11, 0, 255), RGB(9, 0, 0, 255), RGB(9, 0, 0, 128), RGB(18, 0, 0, 255),
     RGB(0, 0, 0, 255)}

Targets == {RGB(10, 3, 0, 255)}

Thresholds == {10 * S, 12 * S}

PaletteInit ==
    /\ op = "init"
    /\ palette \in UNION {[1..n -> PaletteColors] : n \in 0..MaxPalette}
    /\ color = RGB_default
    /\ other = RGB_default
    /\ param = 0
    /\ space = NoSpace
    /\ result = RGB_default
    /\ hsl = HSL_default
    /\ trail = <<>>
    /\ output = <<>>
    /\ scalar = 0

\* result = find_closest_color(color, palette)
FindClosestColor ==
    /\ op = "init"
    /\ \E target \in Targets :
           /\ color' = target
           /\ result' = find_closest_color(target, palette)
    /\ op' = "find_closest_color"
    /\ UNCHANGED <<other, param, space, hsl, trail, palette, output, scalar>>

\* the last n elements of the sequence s
LastN(s, n) == IF Len(s) <= n THEN s ELSE SubSeq(s, Len(s) - n + 1, Len(s))

\* output holds what the last two calls of remove_duplicates on the palette
\* returned, trail the thresholds they were given
RemoveDuplicates ==
    /\ op \in {"init", "remove_duplicates"}
    /\ \E threshold \in Thresholds :
           /\ trail' = LastN(Append(trail, threshold), 2)
           /\ output' = LastN(Append(output, remove_duplicates(palette, threshold)), 2)
    /\ op' = "remove_duplicates"
    /\ UNCHANGED <<color, other, param, space, result, hsl, palette, scalar>>

PaletteNext ==
    \/ FindClosestColor
    \/ RemoveDuplicates

SpecPalette == PaletteInit /\ [][PaletteNext]_vars

\* the index of the first colour of the palette that is as close to the
\* target as any colour of the palette
FirstClosest(target, colors) ==
    LET d == [i \in 1..Len(colors) |-> color_distance(target, colors[i])]
        nearest == {i \in 1..Len(colors) : \A j \in 1..Len(colors) : d[i] <= d[j]}
    IN CHOOSE i \in nearest : \A j \in nearest : i <= j

\* C8: find_closest_color returns, for a non-empty palette, the colour of the
\* palette at the smallest index among those whose color_distance to the
\* target is the minimum over the palette, and the target itself for an
\* empty palette.
ClosestIsFirstMinimum ==
    op = "find_closest_color" =>
        IF palette = <<>> THEN result = color
        ELSE result = palette[FirstClosest(color, palette)]

\* C8: a palette holding, after a farther colour, two different colours
\* equally close to the target and closer than its other colours was searched.
ClosestTieSearched ==
    /\ op = "find_closest_color"
    /\ \E i, j \in 1..Len(palette) :
           /\ 1 < i /\ i < j
           /\ palette[i] # palette[j]
           /\ color_distance(color, palette[i]) = color_distance(color, palette[j])
           /\ FirstClosest(color, palette) = i
           /\ result = palette[i]

\* the strictly increasing sequences of indexes of colors
Picks(colors) ==
    {f \in UNION {[1..n -> 1..Len(colors)] : n \in 0..Len(colors)} :
        \A i, j \in 1..Len(f) : i < j => f[i] < f[j]}

\* kept is colors at the indexes f, f starts at the first colour, the kept
\* colours are pairwise at least threshold apart, and each colour left out is
\* closer than threshold to a kept colour standing before it
GreedyPick(colors, threshold, kept, f) ==
    /\ Len(kept) = Len(f)
    /\ \A i \in 1..Len(f) : kept[i] = colors[f[i]]
    /\ colors # <<>> => (f # <<>> /\ f[1] = 1)
    /\ \A i, j \in 1..Len(kept) :
           i < j => rgb_distance(kept[i], kept[j]) >= threshold
    /\ \A p \in 1..Len(colors) :
           (\A i \in 1..Len(f) : f[i] # p) =>
               \E i \in 1..Len(f) :
                   f[i] < p /\ rgb_distance(colors[p], kept[i]) < threshold

\* C9: what remove_duplicates returns is a subsequence of the palette in the
\* palette's order that starts with the palette's first colour, whose colours
\* are pairwise at rgb_distance >= threshold, and every dropped colour is at
\* rgb_distance < threshold from a returned colour that precedes it in the
\* palette.
DedupIsGreedySubsequence ==
    op = "remove_duplicates" =>
        \A n \in 1..Len(output) :
            \E f \in Picks(palette) : GreedyPick(palette, trail[n], output[n], f)

\* C9: a call dropped a colour from the middle of the palette and kept a
\* later one.
DedupDroppedAndKept ==
    /\ op = "remove_duplicates"
    /\ Len(palette) = 3
    /\ \E n \in 1..Len(output) :
           output[n] = <<palette[1], palette[3]>> /\ palette[2] # palette[1]

\* C10 as claimed: for thresholds t1 <= t2, remove_duplicates(palette, t1)
\* returns at least as many colours as remove_duplicates(palette, t2).
DedupMonotoneInThreshold ==
    op = "remove_duplicates" =>
        \A m, n \in 1..Len(output) :
            trail[m] <= trail[n] => Len(output[m]) >= Len(output[n])

\* C10: on a palette of at most three colours, for thresholds t1 <= t2,
\* remove_duplicates(palette, t1) returns at least as many colours as
\* remove_duplicates(palette, t2).
DedupMonotoneUpToThree ==
    (op = "remove_duplicates" /\ Len(palette) <= 3) =>
        \A m, n \in 1..Len(output) :
            trail[m] <= trail[n] => Len(output[m]) >= Len(output[n])

\* C10: a palette of three colours was deduplicated with a smaller and then a
\* larger threshold, and the larger threshold returned fewer colours.
DedupStricterKeptMore ==
    /\ op = "remove_duplicates"
    /\ Len(palette) = 3
    /\ Len(output) = 2
    /\ trail[1] < trail[2]
    /\ Len(output[1]) > Len(output[2])

-----------------------------------------------------------------------------
(* extract_dominant_colors, utils.hpp                                      *)

\* std::numeric_limits<double>::max(): above every rgb_distance
DBL_MAX == INT_MAX

\* dominant.size() < static_cast<size_t>(count): a negative count converts to
\* 2^64 + count, which no size reaches
BelowCount(size, count) == IF count < 0 THEN TRUE ELSE size < count

\* min_distance after the loop over dominant (rgb_distance is exact to
\* hundredths; different distances between PaletteColors differ by more)
MinDistance(c, dominant) ==
    IF dominant = <<>> THEN DBL_MAX
    ELSE CHOOSE m \in {rgb_distance(c, dominant[k]) : k \in 1..Len(dominant)} :
             \A k \in 1..Len(dominant) : m <= rgb_distance(c, dominant[k])

\* the scan for best_index with >= where the code has >: the last of the
\* equally distant colours wins
RECURSIVE best_index_last_from(_, _, _, _, _)
best_index_last_from(remaining, dominant, i, best_distance, best_index) ==
    IF i > Len(remaining) THEN best_index
    ELSE CHOOSE r \in
           {IF min_distance >= best_distance
              THEN best_index_last_from(remaining, dominant, i + 1, min_distance, i)
              ELSE best_index_last_from(remaining, dominant, i + 1, best_distance,
                                        best_index) :
                min_distance \in {MinDistance(remaining[i], dominant)}} : TRUE

\* the for loop over remaining from remaining[i] on (indexes from 1): the
\* value of best_index after it
RECURSIVE best_index_from(_, _, _, _, _)
best_index_from(remaining, dominant, i, best_distance, best_index) ==
    IF i > Len(remaining) THEN best_index
    ELSE CHOOSE r \in
           {IF min_distance > best_distance
              THEN best_index_from(remaining, dominant, i + 1, min_distance, i)
              ELSE best_index_from(remaining, dominant, i + 1, best_distance,
                                   best_index) :
                min_distance \in {MinDistance(remaining[i], dominant)}} : TRUE

\* remaining.erase(remaining.begin()): the first colour leaves, whichever
\* was selected
Erase_begin(remaining, i) == SubSeq(remaining, 2, Len(remaining))

\* remaining.erase(remaining.begin() + best_index)
Erase(remaining, i) ==
    SubSeq(remaining, 1, i - 1) \o SubSeq(remaining, i + 1, Len(remaining))

\* the while loop of extract_dominant_colors
RECURSIVE dominant_loop(_, _, _)
dominant_loop(dominant, remaining, count) ==
    IF ~(BelowCount(Len(dominant), count) /\ remaining # <<>>) THEN dominant
    ELSE CHOOSE r \in
           {dominant_loop(Append(dominant, remaining[b]), Erase(remaining, b), count) :
                b \in {best_index_from(remaining, dominant, 1, 0, 1)}} : TRUE

extract_dominant_colors(colors, count) ==
    IF colors = <<>> THEN <<>> ELSE dominant_loop(<<>>, colors, count)

Counts == {-1, 0, 1, 2, 3, 6}

\* output = extract_dominant_colors(palette, param)
ExtractDominantColors ==
    /\ op = "init"
    /\ \E count \in Counts :
           /\ param' = count
           /\ output' = extract_dominant_colors(palette, count)
    /\ op' = "extract_dominant_colors"
    /\ UNCHANGED <<color, other, space, result, hsl, trail, palette, scalar>>

DominantNext == ExtractDominantColors

SpecDominant == PaletteInit /\ [][DominantNext]_vars

\* C11: extract_dominant_colors(colors, count) returns exactly
\* min(max(count, 0), |colors|) colours for every integer count, so nothing
\* for count <= 0 and for empty input, and the colour itself for a
\* single-colour input with count >= 1.
DominantCountExact ==
    op = "extract_dominant_colors" =>
        /\ Len(output) = Min(Max(param, 0), Len(palette))
        /\ (Len(palette) = 1 /\ param >= 1) => output = palette

\* the least rgb_distance from colors[i] to the colours of colors at the
\* indexes in chosen
Score(colors, i, chosen) ==
    CHOOSE m \in {rgb_distance(colors[i], colors[chosen[k]]) : k \in 1..Len(chosen)} :
        \A k \in 1..Len(chosen) : m <= rgb_distance(colors[i], colors[chosen[k]])

\* the indexes a greedy maximin selection of n colours takes after chosen:
\* each time the free index of greatest Score, the smallest such index
RECURSIVE MaximinPicks(_, _, _)
MaximinPicks(colors, n, chosen) ==
    IF Len(chosen) >= n THEN chosen
    ELSE LET free == {i \in 1..Len(colors) : \A k \in 1..Len(chosen) : chosen[k] # i}
             best == IF chosen = <<>> THEN 1
                     ELSE CHOOSE i \in free :
                            \A j \in free :
                                \/ Score(colors, j, chosen) < Score(colors, i, chosen)
                                \/ /\ Score(colors, j, chosen) = Score(colors, i, chosen)
                                   /\ i <= j
         IN MaximinPicks(colors, n, Append(chosen, best))

\* C12: the first colour extract_dominant_colors selects is colors[0], and
\* every later one is the not yet selected colour whose least rgb_distance to
\* the colours selected so far is greatest, the earliest of them when several
\* are equally far.
DominantIsGreedyMaximin ==
    op = "extract_dominant_colors" =>
        LET picks == MaximinPicks(palette, Len(output), <<>>)
        IN \A k \in 1..Len(output) : output[k] = palette[picks[k]]

\* C12: of three different colours, the second and the third equally far from
\* the first, the second was selected after the first.
DominantTieTakesEarlier ==
    /\ op = "extract_dominant_colors"
    /\ Len(palette) = 3
    /\ palette[2] # palette[3]
    /\ rgb_distance(palette[1], palette[2]) = rgb_distance(palette[1], palette[3])
    /\ rgb_distance(palette[1], palette[2]) > 0
    /\ Len(output) >= 2
    /\ output[2] = palette[2]

-----------------------------------------------------------------------------
(* HSL harmonies as rotations                                              *)

\* x with its hue moved by c hundredths of a degree, modulo 360 degrees
Rotated(x, c) == [x EXCEPT !.h = (x.h + c) % FULL_TURN]

\* an angle in eighths of a degree as hundredths of a degree within one turn
Hundredths(angle) == ((angle % (360 * EIGHTHS)) * 100) \div EIGHTHS

\* C13: triadic() returns the base and the base rotated by 120 and by 240
\* degrees, in that order; complement() rotates by 180 degrees and two
\* complements restore the hue; analogous(angle) returns the base rotated by
\* -angle, the base, the base rotated by angle; split_complementary(angle)
\* returns the base and the base rotated by 180 - angle and by 180 + angle;
\* s, l and alpha are the base's everywhere.
HarmoniesArePureRotations ==
    /\ op = "complement" => hsl = Rotated(space, 18000)
    /\ (op = "complement" /\ trail = <<180 * EIGHTHS, 180 * EIGHTHS>>) => hsl.h = scalar
    /\ op = "triadic" => output = <<hsl, Rotated(hsl, 12000), Rotated(hsl, 24000)>>
    /\ op = "analogous" =>
           output = <<Rotated(hsl, -Hundredths(param)), hsl,
                      Rotated(hsl, Hundredths(param))>>
    /\ op = "split_complementary" =>
           output = <<hsl, Rotated(hsl, 18000 - Hundredths(param)),
                      Rotated(hsl, 18000 + Hundredths(param))>>

-----------------------------------------------------------------------------
(* HSL to RGB and back, types_hsl.hpp                                      *)

\* the lambda hue_to_rgb of HSL::to_rgb
hue_to_rgb(p, q, t0) ==
    CHOOSE v \in
        {IF t < S \div 6 THEN p + Mul((q - p) * 6, t)
         ELSE IF t < S \div 2 THEN q
         ELSE IF t < (2 * S) \div 3 THEN p + Mul(q - p, (2 * S) \div 3 - t) * 6
         ELSE p :
            t \in {IF t0 < 0 THEN t0 + S ELSE IF t0 > S THEN t0 - S ELSE t0}} : TRUE

\* HSL::to_rgb
HSL_to_rgb(x) ==
    IF x.s = 0 THEN RGB(x.l, x.l, x.l, x.alpha)
    ELSE CHOOSE c \in
           {RGB(Round(hue_to_rgb(pq[1], pq[2], h_norm + S \div 3) * 255) % 256,
                Round(hue_to_rgb(pq[1], pq[2], h_norm) * 255) % 256,
                Round(hue_to_rgb(pq[1], pq[2], h_norm - S \div 3) * 255) % 256,
                x.alpha) :
              pq \in {<<2 * l_norm - q, q>> :
                        q \in {IF l_norm < S \div 2
                                 THEN Mul(l_norm, S + s_norm)
                                 ELSE l_norm + s_norm - Mul(l_norm, s_norm) :
                                   l_norm \in {Ratio(x.l, 255)},
                                   s_norm \in {Ratio(x.s, 255)}},
                        l_norm \in {Ratio(x.l, 255)}},
              h_norm \in {Ratio(x.h, FULL_TURN)}} : TRUE

HslR == {0, 13, 65, 191, 255}
HslG == {0, 13, 65, 127, 191}
HslB == {0, 33, 65, 191, 255}
HslA == {255, 77}

HslInit ==
    /\ op = "init"
    /\ color \in {RGB(r, g, b, a) : r \in HslR, g \in HslG, b \in HslB, a \in HslA}
    /\ other = RGB_default
    /\ param = 0
    /\ space = NoSpace
    /\ result = RGB_default
    /\ hsl = HSL_default
    /\ trail = <<>>
    /\ palette = <<>>
    /\ output = <<>>
    /\ scalar = 0

\* hsl = HSL::fromRGB(color)
HSLofColor ==
    /\ op = "init"
    /\ hsl' = HSL_fromRGB(color)
    /\ op' = "fromRGB"
    /\ UNCHANGED <<color, other, param, space, result, trail, palette, output, scalar>>

\* result = hsl.to_rgb()
HSLtoRGB ==
    /\ op = "fromRGB"
    /\ result' = HSL_to_rgb(hsl)
    /\ op' = "to_rgb"
    /\ UNCHANGED <<color, other, param, space, hsl, trail, palette, output, scalar>>

HslNext ==
    \/ HSLofColor
    \/ HSLtoRGB

SpecHsl == HslInit /\ [][HslNext]_vars

\* C14: HSL::fromRGB(c).to_rgb() is within 1 of c in each of r, g, b and has
\* c's alpha; an achromatic c converts to hue 0 and saturation 0; pure red
\* converts to h = 0, s = 255 and l within 2 of 127.
HslRoundTripWithinOne ==
    /\ op = "to_rgb" => (ChannelDiff(result, color) <= 1 /\ result.a = color.a)
    /\ (op # "init" /\ color.r = color.g /\ color.g = color.b) =>
           (hsl.h = 0 /\ hsl.s = 0)
    /\ (op # "init" /\ color.r = 255 /\ color.g = 0 /\ color.b = 0) =>
           (hsl.h = 0 /\ hsl.s = 255 /\ Abs(hsl.l - 127) <= 2)

-----------------------------------------------------------------------------
(* Blending, types_basic.hpp                                               *)

\* static_cast<uint8_t>(int)
ToUint8(n) == n % 256

\* RGB::blend_add without the test for a sum above 255
RGB_blend_add_wrapping(x, y) ==
    RGB(ToUint8(x.r + y.r), ToUint8(x.g + y.g), ToUint8(x.b + y.b), x.a)

\* RGB::blend_add
RGB_blend_add(x, y) ==
    RGB(ToUint8(IF x.r + y.r > 255 THEN 255 ELSE x.r + y.r),
        ToUint8(IF x.g + y.g > 255 THEN 255 ELSE x.g + y.g),
        ToUint8(IF x.b + y.b > 255 THEN 255 ELSE x.b + y.b), x.a)

\* RGB::blend_subtract
RGB_blend_subtract(x, y) ==
    RGB(ToUint8(IF x.r > y.r THEN x.r - y.r ELSE 0),
        ToUint8(IF x.g > y.g THEN x.g - y.g ELSE 0),
        ToUint8(IF x.b > y.b THEN x.b - y.b ELSE 0), x.a)

\* RGB::blend_multiply
RGB_blend_multiply(x, y) ==
    RGB(ToUint8((x.r * y.r) \div 255), ToUint8((x.g * y.g) \div 255),
        ToUint8((x.b * y.b) \div 255), x.a)

\* RGB::blend_screen
RGB_blend_screen(x, y) ==
    RGB(ToUint8(255 - ((255 - x.r) * (255 - y.r)) \div 255),
        ToUint8(255 - ((255 - x.g) * (255 - y.g)) \div 255),
        ToUint8(255 - ((255 - x.b) * (255 - y.b)) \div 255), x.a)

\* the lambda overlay_channel of RGB::blend_overlay
overlay_channel(base, blend) ==
    IF base < 128 THEN ToUint8((2 * base * blend) \div 255)
    ELSE ToUint8(255 - (2 * (255 - base) * (255 - blend)) \div 255)

\* RGB::blend_overlay
RGB_blend_overlay(x, y) ==
    RGB(overlay_channel(x.r, y.r), overlay_channel(x.g, y.g),
        overlay_channel(x.b, y.b), x.a)

\* static_cast<uint8_t>((c * alpha_fg + bg_c * alpha_bg * (1.0 - alpha_fg)) / alpha_out)
BlendedChannel(c, bg_c, alpha_fg, alpha_bg, inv_alpha, alpha_out) ==
    ToUint8(DoubleToInt(
        DoubleQuotient(
            DoubleSum(DoubleProduct(Double(c), alpha_fg),
                      DoubleProduct(DoubleProduct(Double(bg_c), alpha_bg), inv_alpha)),
            alpha_out)))

\* RGB::alpha_blend
RGB_alpha_blend(x, background) ==
    IF x.a = 255 THEN x
    ELSE IF x.a = 0 THEN background
    ELSE CHOOSE c \in
        {IF w[4].m = <<>> THEN RGB(0, 0, 0, 0)
         ELSE RGB(BlendedChannel(x.r, background.r, w[1], w[2], w[3], w[4]),
                  BlendedChannel(x.g, background.g, w[1], w[2], w[3], w[4]),
                  BlendedChannel(x.b, background.b, w[1], w[2], w[3], w[4]),
                  ToUint8(DoubleToInt(DoubleProduct(w[4], Double(255))))) :
            w \in {<<f[1], f[2], f[3], DoubleSum(f[1], DoubleProduct(f[2], f[3]))>> :
                     f \in {<<alpha_fg, alpha_bg, DoubleDifference(Double(1), alpha_fg)>> :
                              alpha_fg \in {DoubleQuotient(Double(x.a), Double(255))},
                              alpha_bg \in {DoubleQuotient(Double(background.a),
                                                           Double(255))}}}} : TRUE

\* RGB::alpha_blend_simple
RGB_alpha_blend_simple(x, background) ==
    IF x.a = 255 THEN x
    ELSE IF x.a = 0 THEN background
    ELSE CHOOSE c \in
        {RGB(ToUint8(DoubleToInt(DoubleSum(DoubleProduct(Double(x.r), w[1]),
                                           DoubleProduct(Double(background.r), w[2])))),
             ToUint8(DoubleToInt(DoubleSum(DoubleProduct(Double(x.g), w[1]),
                                           DoubleProduct(Double(background.g), w[2])))),
             ToUint8(DoubleToInt(DoubleSum(DoubleProduct(Double(x.b), w[1]),
                                           DoubleProduct(Double(background.b), w[2])))),
             255) :
            w \in {<<alpha, DoubleDifference(Double(1), alpha)>> :
                     alpha \in {DoubleQuotient(Double(x.a), Double(255))}}} : TRUE

\* receivers and arguments of the blending calls
BlendForegrounds ==
    {RGB(10, 128, 243, 255), RGB(255, 0, 0, 255), RGB(0, 0, 0, 255),
     RGB(255, 255, 255, 255), RGB(200, 127, 100, 255)}
BlendBackgrounds ==
    {RGB(10, 65, 214, 255), RGB(0, 255, 0, 255), RGB(255, 255, 255, 255),
     RGB(0, 0, 0, 255), RGB(100, 150, 200, 255)}
ForegroundAlphas == {0, 5, 128, 133, 172, 255}
BackgroundAlphas == {0, 128, 167, 255}

BlendInit ==
    /\ op = "init"
    /\ color \in {RGB(c.r, c.g, c.b, a) : c \in BlendForegrounds, a \in ForegroundAlphas}
    /\ other \in {RGB(c.r, c.g, c.b, a) : c \in BlendBackgrounds, a \in BackgroundAlphas}
    /\ param = 0
    /\ space = NoSpace
    /\ result = RGB_default
    /\ hsl = HSL_default
    /\ trail = <<>>
    /\ palette = <<>>
    /\ output = <<>>
    /\ scalar = 0

\* result = color.alpha_blend(other)
AlphaBlend ==
    /\ op = "init"
    /\ result' = RGB_alpha_blend(color, other)
    /\ op' = "alpha_blend"
    /\ UNCHANGED <<color, other, param, space, hsl, trail, palette, output, scalar>>

\* result = color.alpha_blend_simple(other)
AlphaBlendSimple ==
    /\ op = "init"
    /\ result' = RGB_alpha_blend_simple(color, other)
    /\ op' = "alpha_blend_simple"
    /\ UNCHANGED <<color, other, param, space, hsl, trail, palette, output, scalar>>

\* result = color.blend_add(other)
BlendAdd ==
    /\ op = "init"
    /\ result' = RGB_blend_add(color, other)
    /\ op' = "blend_add"
    /\ UNCHANGED <<color, other, param, space, hsl, trail, palette, output, scalar>>

\* result = color.blend_subtract(other)
BlendSubtract ==
    /\ op = "init"
    /\ result' = RGB_blend_subtract(color, other)
    /\ op' = "blend_subtract"
    /\ UNCHANGED <<color, other, param, space, hsl, trail, palette, output, scalar>>

\* result = color.blend_multiply(other)
BlendMultiply ==
    /\ op = "init"
    /\ result' = RGB_blend_multiply(color, other)
    /\ op' = "blend_multiply"
    /\ UNCHANGED <<color, other, param, space, hsl, trail, palette, output, scalar>>

\* result = color.blend_screen(other)
BlendScreen ==
    /\ op = "init"
    /\ result' = RGB_blend_screen(color, other)
    /\ op' = "blend_screen"
    /\ UNCHANGED <<color, other, param, space, hsl, trail, palette, output, scalar>>

\* result = color.blend_overlay(other)
BlendOverlay ==
    /\ op = "init"
    /\ result' = RGB_blend_overlay(color, other)
    /\ op' = "blend_overlay"
    /\ UNCHANGED <<color, other, param, space, hsl, trail, palette, output, scalar>>

BlendNext ==
    \/ AlphaBlend
    \/ AlphaBlendSimple
    \/ BlendAdd
    \/ BlendSubtract
    \/ BlendMultiply
    \/ BlendScreen
    \/ BlendOverlay

SpecBlend == BlendInit /\ [][BlendNext]_vars

\* out_alpha * 255 * 255 for the alphas a (foreground) and bg_a (background)
OutAlpha(a, bg_a) == 255 * a + bg_a * (255 - a)

\* trunc((c * af + bg_c * ab * (1 - af)) / out_alpha) in whole numbers
OverChannel(c, a, bg_c, bg_a) ==
    (255 * c * a + bg_c * bg_a * (255 - a)) \div OutAlpha(a, bg_a)

\* C15: alpha_blend is Porter-Duff over: a foreground of alpha 0 gives the
\* background, one of alpha 255 gives the foreground; otherwise the result
\* alpha is trunc(out_alpha * 255), each colour channel is
\* trunc((fg.c * af + bg.c * ab * (1 - af)) / out_alpha), and the result is
\* transparent black exactly when out_alpha = 0.
AlphaBlendIsPorterDuffOver ==
    op = "alpha_blend" =>
        IF color.a = 0 THEN result = other
        ELSE IF color.a = 255 THEN result = color
        ELSE IF OutAlpha(color.a, other.a) = 0 THEN result = RGB(0, 0, 0, 0)
        ELSE /\ result.a = OutAlpha(color.a, other.a) \div 255
             /\ result.r = OverChannel(color.r, color.a, other.r, other.a)
             /\ result.g = OverChannel(color.g, color.a, other.g, other.a)
             /\ result.b = OverChannel(color.b, color.a, other.b, other.a)
             /\ result # RGB(0, 0, 0, 0)

\* 255 * (fg_c * alpha + bg_c * (1 - alpha)) with alpha = a / 255
Interpolated(c, a, bg_c) == c * a + bg_c * (255 - a)

\* C16: for every foreground and background, alpha_blend_simple gives alpha
\* 255 and, in r, g and b, the linear interpolation
\* fg.c * alpha + bg.c * (1 - alpha) with alpha = fg.a / 255, to within one
\* unit of the channel.
AlphaBlendSimpleInterpolates ==
    op = "alpha_blend_simple" =>
        /\ result.a = 255
        /\ Abs(255 * result.r - Interpolated(color.r, color.a, other.r)) <= 255
        /\ Abs(255 * result.g - Interpolated(color.g, color.a, other.g)) <= 255
        /\ Abs(255 * result.b - Interpolated(color.b, color.a, other.b)) <= 255

\* the blend mode named by op, applied to one channel of receiver and argument
BlendFormula(a, b) ==
    CASE op = "blend_add" -> Min(255, a + b)
      [] op = "blend_subtract" -> Max(0, a - b)
      [] op = "blend_multiply" -> (a * b) \div 255
      [] op = "blend_screen" -> 255 - ((255 - a) * (255 - b)) \div 255
      [] op = "blend_overlay" ->
             IF a < 128 THEN (2 * a * b) \div 255
             ELSE 255 - (2 * (255 - a) * (255 - b)) \div 255

BlendModes == {"blend_add", "blend_subtract", "blend_multiply", "blend_screen",
               "blend_overlay"}

\* C17: each blend mode computes its formula per colour channel with integer
\* division, every result channel is in 0..255, the result alpha is the
\* receiver's, blend_add(black, white) is white and
\* blend_subtract(black, white) is black.
BlendModesExact ==
    op \in BlendModes =>
        /\ result.r = BlendFormula(color.r, other.r)
        /\ result.g = BlendFormula(color.g, other.g)
        /\ result.b = BlendFormula(color.b, other.b)
        /\ result.a = color.a
        /\ {result.r, result.g, result.b} \subseteq 0..255
        /\ (color.r + color.g + color.b = 0 /\ other.r + other.g + other.b = 765) =>
               /\ op = "blend_add" => result.r + result.g + result.b = 765
               /\ op = "blend_subtract" => result.r + result.g + result.b = 0

\* C17: an addition that went above 255 in one channel and stayed at 255
BlendAddSaturated ==
    /\ op = "blend_add"
    /\ color.r + other.r > 255
    /\ color.g + other.g < 255
    /\ result.r = 255

-----------------------------------------------------------------------------
(* Contrast and accessibility, utils.hpp                                   *)

\* the double written n/d as a decimal literal (0.299 is DoubleLiteral(299, 1000))
DoubleLiteral(n, d) == DoubleQuotient(Double(n), Double(d))

\* x == y on doubles
DoubleEqual(x, y) == ~DoubleLess(x, y) /\ ~DoubleLess(y, x)

\* RGB::luminance, types_basic.hpp
luminance(x) ==
    DoubleSum(DoubleSum(DoubleProduct(DoubleLiteral(299, 1000), Double(x.r)),
                        DoubleProduct(DoubleLiteral(587, 1000), Double(x.g))),
              DoubleProduct(DoubleLiteral(114, 1000), Double(x.b)))

\* (lum1 + 0.05) / (lum2 + 0.05)
LuminanceRatio(lum1, lum2) ==
    DoubleQuotient(DoubleSum(lum1, DoubleLiteral(5, 100)),
                   DoubleSum(lum2, DoubleLiteral(5, 100)))

\* contrast_ratio without the swap that puts the lighter colour first
contrast_ratio_unswapped(color1, color2) ==
    LuminanceRatio(DoubleQuotient(luminance(color1), Double(255)),
                   DoubleQuotient(luminance(color2), Double(255)))

\* contrast_ratio
contrast_ratio(color1, color2) ==
    CHOOSE r \in
        {IF DoubleLess(lum[1], lum[2]) THEN LuminanceRatio(lum[2], lum[1])
                                       ELSE LuminanceRatio(lum[1], lum[2]) :
            lum \in {<<DoubleQuotient(luminance(color1), Double(255)),
                       DoubleQuotient(luminance(color2), Double(255))>>}} : TRUE

\* x >= n / d on doubles
AtLeast(x, n, d) == ~DoubleLess(x, DoubleLiteral(n, d))

\* the returns of check_accessibility with the test of large_text at 3.0 removed
AccessibilityLevelAnyText(ratio, large_text) ==
    IF AtLeast(ratio, 7, 1) THEN "AAA_NORMAL"
    ELSE IF AtLeast(ratio, 45, 10)
           THEN (IF large_text THEN "AAA_LARGE" ELSE "AA_NORMAL")
    ELSE IF AtLeast(ratio, 3, 1) THEN "AA_LARGE"
    ELSE "FAIL"

\* the returns of check_accessibility for a contrast ratio
AccessibilityLevel(ratio, large_text) ==
    IF AtLeast(ratio, 7, 1) THEN "AAA_NORMAL"
    ELSE IF AtLeast(ratio, 45, 10)
           THEN (IF large_text THEN "AAA_LARGE" ELSE "AA_NORMAL")
    ELSE IF AtLeast(ratio, 3, 1) /\ large_text THEN "AA_LARGE"
    ELSE "FAIL"

\* check_accessibility
check_accessibility(foreground, background, large_text) ==
    AccessibilityLevel(contrast_ratio(foreground, background), large_text)

\* the colours compared
ContrastColors ==
    {RGB(255, 255, 255, 255), RGB(0, 0, 0, 255), RGB(128, 128, 128, 255),
     RGB(128, 128, 128, 77), RGB(255, 0, 0, 255), RGB(0, 0, 255, 255),
     RGB(90, 90, 90, 255), RGB(200, 127, 100, 255), RGB(0, 255, 0, 255)}

\* param is large_text: 1 for true
ContrastInit ==
    /\ op = "init"
    /\ color \in ContrastColors
    /\ other \in ContrastColors
    /\ param \in {0, 1}
    /\ space = NoSpace
    /\ result = RGB_default
    /\ hsl = HSL_default
    /\ trail = <<>>
    /\ palette = <<>>
    /\ output = <<>>
    /\ scalar = 0

\* output = <<contrast_ratio(color, other), contrast_ratio(other, color)>>,
\* trail = the luminance of the two colours
ContrastRatio ==
    /\ op = "init"
    /\ output' = <<contrast_ratio(color, other), contrast_ratio(other, color)>>
    /\ trail' = <<luminance(color), luminance(other)>>
    /\ op' = "contrast_ratio"
    /\ UNCHANGED <<color, other, param, space, result, hsl, palette, scalar>>

\* output = <<check_accessibility(color, other, large_text),
\*            check_accessibility(other, color, large_text)>>,
\* scalar = the ratio of the first call
CheckAccessibility ==
    /\ op = "init"
    /\ scalar' = contrast_ratio(color, other)
    /\ output' = <<check_accessibility(color, other, param = 1),
                   check_accessibility(other, color, param = 1)>>
    /\ op' = "check_accessibility"
    /\ UNCHANGED <<color, other, param, space, result, hsl, trail, palette>>

ContrastNext ==
    \/ ContrastRatio
    \/ CheckAccessibility

SpecContrast == ContrastInit /\ [][ContrastNext]_vars

\* the lighter and the darker of two luminances scaled to [0, 1]
Lighter(x, y) == DoubleQuotient(IF DoubleLess(x, y) THEN y ELSE x, Double(255))
Darker(x, y) == DoubleQuotient(IF DoubleLess(x, y) THEN x ELSE y, Double(255))

\* C18: contrast_ratio(x, y) = (L_lighter + 0.05) / (L_darker + 0.05) on the
\* luminances scaled to [0, 1]; it is symmetric, at least 1, equal to 1 for
\* equal luminances, 21.0 for white against black, and never above 21.0.
ContrastRatioIsLuminanceRatio ==
    op = "contrast_ratio" =>
        /\ DoubleEqual(output[1],
                       DoubleQuotient(DoubleSum(Lighter(trail[1], trail[2]),
                                                DoubleLiteral(5, 100)),
                                      DoubleSum(Darker(trail[1], trail[2]),
                                                DoubleLiteral(5, 100))))
        /\ DoubleEqual(output[1], output[2])
        /\ ~DoubleLess(output[1], Double(1))
        /\ DoubleEqual(trail[1], trail[2]) => DoubleEqual(output[1], Double(1))
        /\ ({color, other} = {RGB(255, 255, 255, 255), RGB(0, 0, 0, 255)}) =>
               DoubleEqual(output[1], Double(21))
        /\ ~DoubleLess(Double(21), output[1])

\* C18: the darker colour was given first and the ratio is the maximum, 21.0
ContrastBlackOnWhite ==
    /\ op = "contrast_ratio"
    /\ color = RGB(0, 0, 0, 255)
    /\ other = RGB(255, 255, 255, 255)
    /\ DoubleEqual(output[1], Double(21))

\* C19: check_accessibility gives AAA_NORMAL for a ratio of at least 7.0;
\* AAA_LARGE with large_text and AA_NORMAL without it for a ratio from 4.5 up
\* to 7.0; AA_LARGE with large_text and FAIL without it for a ratio from 3.0 up
\* to 4.5; FAIL for a ratio below 3.0; and the same level when foreground and
\* background are swapped.
AccessibilityBuckets ==
    op = "check_accessibility" =>
        /\ AtLeast(scalar, 7, 1) => output[1] = "AAA_NORMAL"
        /\ (AtLeast(scalar, 45, 10) /\ ~AtLeast(scalar, 7, 1)) =>
               output[1] = (IF param = 1 THEN "AAA_LARGE" ELSE "AA_NORMAL")
        /\ (AtLeast(scalar, 3, 1) /\ ~AtLeast(scalar, 45, 10)) =>
               output[1] = (IF param = 1 THEN "AA_LARGE" ELSE "FAIL")
        /\ ~AtLeast(scalar, 3, 1) => output[1] = "FAIL"
        /\ output[1] = output[2]

\* C19: a ratio from 3.0 up to 4.5 was checked for large text and passed as
\* AA_LARGE
AccessibilityLargeTextOnly ==
    /\ op = "check_accessibility"
    /\ AtLeast(scalar, 3, 1)
    /\ ~AtLeast(scalar, 45, 10)
    /\ param = 1
    /\ output[1] = "AA_LARGE"

-----------------------------------------------------------------------------
(* normalize of the floating-hue types, types_hsv.hpp and types_lch.hpp    *)

\* a float has 24 significant bits
FLOAT_MANTISSA == 24

\* the float nearest to n * 2^e (ties to even), as RoundToDouble
RoundToFloat(n, e, sticky) ==
    IF n = <<>> THEN [m |-> <<>>, e |-> 0]
    ELSE CHOOSE d \in
        {IF cut <= 0 THEN [m |-> n, e |-> e]
         ELSE CHOOSE d2 \in
                {IF BigBit(n, cut - 1) = 1
                     /\ (sticky \/ BigAnyBelow(n, cut - 1) \/ BigBit(n, cut) = 1)
                   THEN (IF BigBits(BigAdd(kept, <<1>>)) > FLOAT_MANTISSA
                           THEN [m |-> BigShr(BigAdd(kept, <<1>>), 1), e |-> e + cut + 1]
                           ELSE [m |-> BigAdd(kept, <<1>>), e |-> e + cut])
                   ELSE [m |-> kept, e |-> e + cut] :
                     kept \in {BigShr(n, cut)}} : TRUE :
            cut \in {BigBits(n) - FLOAT_MANTISSA}} : TRUE

\* x - y on floats, x >= y
FloatDifference(x, y) ==
    IF y.m = <<>> THEN x
    ELSE CHOOSE d \in
        {RoundToFloat(BigSub(BigShl(x.m, x.e - lo), BigShl(y.m, y.e - lo)), lo, FALSE) :
            lo \in {Min(x.e, y.e)}} : TRUE

\* the number n * 2^k with its sign, n an integer
Signed(n, k) == [neg |-> n < 0, abs |-> [m |-> Big(Abs(n)), e |-> k]]

\* x < 0.0
Negative(x) == x.neg /\ x.abs.m # <<>>

\* x < y
SignedLess(x, y) ==
    IF Negative(x) THEN (IF Negative(y) THEN DoubleLess(y.abs, x.abs) ELSE TRUE)
    ELSE (IF Negative(y) THEN FALSE ELSE DoubleLess(x.abs, y.abs))

\* x == y
SignedEqual(x, y) == ~SignedLess(x, y) /\ ~SignedLess(y, x)

\* x + y on doubles
SignedSum(x, y) ==
    IF x.neg = y.neg THEN [neg |-> x.neg, abs |-> DoubleSum(x.abs, y.abs)]
    ELSE IF DoubleLess(x.abs, y.abs)
           THEN [neg |-> y.neg, abs |-> DoubleDifference(y.abs, x.abs)]
    ELSE IF DoubleLess(y.abs, x.abs)
           THEN [neg |-> x.neg, abs |-> DoubleDifference(x.abs, y.abs)]
    ELSE Signed(0, 0)

\* x * y on doubles
SignedProduct(x, y) == [neg |-> x.neg # y.neg, abs |-> DoubleProduct(x.abs, y.abs)]

\* std::clamp(x, lo, hi)
SignedClamp(x, lo, hi) == IF SignedLess(x, lo) THEN lo ELSE IF SignedLess(hi, x) THEN hi ELSE x

\* std::max(0.0, x)
MaxZero(x) == IF SignedLess(Signed(0, 0), x) THEN x ELSE Signed(0, 0)

\* std::fmod(x, 360.0): exact, with the sign of x
SignedFmod360(x) ==
    IF x.abs.m = <<>> THEN x
    ELSE IF x.abs.e >= 0
           THEN [neg |-> x.neg,
                 abs |-> [m |-> BigDivMod(BigShl(x.abs.m, x.abs.e), Big(360))[2], e |-> 0]]
    ELSE [neg |-> x.neg,
          abs |-> [m |-> BigDivMod(x.abs.m, BigShl(Big(360), -x.abs.e))[2], e |-> x.abs.e]]

\* the wrap of the hue in HSV::normalize, on floats
WrapHueFloat(h) ==
    IF Negative(h) \/ ~SignedLess(h, Signed(360, 0))
      THEN CHOOSE r \in
             {IF Negative(f)
                THEN [neg |-> FALSE, abs |-> FloatDifference(Double(360), f.abs)]
                ELSE f : f \in {SignedFmod360(h)}} : TRUE
      ELSE h

\* HSV::normalize
HSV_normalize(x) ==
    [type |-> "HSV", h |-> WrapHueFloat(x.h),
     s |-> SignedClamp(x.s, Signed(0, 0), Signed(1, 0)),
     v |-> SignedClamp(x.v, Signed(0, 0), Signed(1, 0))]

\* the constructor HSV(h_, s_, v_)
HSV(h_, s_, v_) == HSV_normalize([type |-> "HSV", h |-> h_, s |-> s_, v |-> v_])

\* the wrap of the hue in LCH::normalize, on doubles
WrapHueDouble(h) ==
    IF Negative(h) \/ ~SignedLess(h, Signed(360, 0))
      THEN CHOOSE r \in
             {IF Negative(f)
                THEN [neg |-> FALSE, abs |-> DoubleDifference(Double(360), f.abs)]
                ELSE f : f \in {SignedFmod360(h)}} : TRUE
      ELSE h

\* LCH::normalize on doubles; LCH_normalize is its restriction to multiples of 1/S
LCH_normalize_double(x) ==
    [type |-> "LCH", l |-> SignedClamp(x.l, Signed(0, 0), Signed(100, 0)),
     c |-> MaxZero(x.c), h |-> WrapHueDouble(x.h)]

\* the constructor LCH(l_, c_, h_) on doubles
LCH_double(l_, c_, h_) == LCH_normalize_double([type |-> "LCH", l |-> l_, c |-> c_, h |-> h_])

\* LCH::adjust_lightness
LCH_adjust_lightness(x, delta) ==
    LCH_double(SignedClamp(SignedSum(x.l, delta), Signed(0, 0), Signed(100, 0)), x.c, x.h)

\* LCH::adjust_chroma
LCH_adjust_chroma(x, delta) == LCH_double(x.l, MaxZero(SignedSum(x.c, delta)), x.h)

\* LCH::scale_chroma
LCH_scale_chroma(x, factor) == LCH_double(x.l, MaxZero(SignedProduct(x.c, factor)), x.h)

\* LCH::rotate_hue
LCH_rotate_hue(x, degrees) == LCH_double(x.l, x.c, SignedSum(x.h, degrees))

\* LCH::set_hue
LCH_set_hue(x, hue_degrees) == LCH_double(x.l, x.c, hue_degrees)

\* float hues: 0, 90, the float below 360, 360, 450, 720, -30, -360, -450,
\* -2^-15 and -2^-20
FloatHues ==
    {Signed(0, 0), Signed(90, 0), Signed(11796479, -15), Signed(360, 0), Signed(450, 0),
     Signed(720, 0), Signed(-30, 0), Signed(-360, 0), Signed(-450, 0), Signed(-1, -15),
     Signed(-1, -20)}

\* -0.5, 0, 0.5, 1, 1.5
Fractions == {Signed(-1, -1), Signed(0, 0), Signed(1, -1), Signed(1, 0), Signed(3, -1)}

\* double hues: 90, 450, -30, 360 and -2^-50; changes of the hue: 30, 270,
\* -90 and -(90 + 2^-46), the double below -90
DoubleHues == {Signed(90, 0), Signed(450, 0), Signed(-30, 0), Signed(360, 0), Signed(-1, -50)}
BelowMinus90 == [neg |-> TRUE, abs |-> [m |-> BigAdd(BigShl(Big(90), 46), Big(1)), e |-> -46]]
HueChanges == {Signed(30, 0), Signed(270, 0), Signed(-90, 0), BelowMinus90}

Lightnesses == {Signed(-10, 0), Signed(50, 0), Signed(400, 0)}
Chromas == {Signed(-10, 0), Signed(10, 0)}
Deltas == {Signed(-200, 0), Signed(-5, 0), Signed(30, 0), Signed(200, 0)}
ChromaFactors == {Signed(-2, 0), Signed(0, 0), Signed(1, -1), Signed(2, 0)}

\* space is the value held, trail the value before the last normalize()
NormalizeInit ==
    /\ op = "init"
    /\ color = RGB_default
    /\ other = RGB_default
    /\ param = 0
    /\ space = NoSpace
    /\ result = RGB_default
    /\ hsl = HSL_default
    /\ trail = <<>>
    /\ palette = <<>>
    /\ output = <<>>
    /\ scalar = 0

NormalizeFrame == <<color, other, param, result, hsl, palette, output, scalar>>

\* space = HSV(h_, s_, v_)
ConstructHSV ==
    /\ op = "init"
    /\ \E h_ \in FloatHues, s_ \in Fractions, v_ \in Fractions :
           space' = HSV(h_, s_, v_)
    /\ op' = "HSV"
    /\ UNCHANGED <<NormalizeFrame, trail>>

\* space.normalize() on the HSV held
NormalizeHSV ==
    /\ op = "HSV"
    /\ space' = HSV_normalize(space)
    /\ trail' = <<space>>
    /\ op' = "HSV::normalize"
    /\ UNCHANGED NormalizeFrame

\* space = LCH(l_, c_, h_)
ConstructLCH ==
    /\ op = "init"
    /\ \E l_ \in Lightnesses, c_ \in Chromas, h_ \in DoubleHues :
           /\ space' = LCH_double(l_, c_, h_)
           /\ trail' = <<[type |-> "LCH", l |-> l_, c |-> c_, h |-> h_]>>
    /\ op' = "LCH"
    /\ UNCHANGED NormalizeFrame

\* space = space.adjust_lightness(delta)
AdjustLightness ==
    /\ op = "LCH"
    /\ \E delta \in Deltas : space' = LCH_adjust_lightness(space, delta)
    /\ op' = "adjust_lightness"
    /\ UNCHANGED <<NormalizeFrame, trail>>

\* space = space.adjust_chroma(delta)
AdjustChroma ==
    /\ op = "LCH"
    /\ \E delta \in Deltas : space' = LCH_adjust_chroma(space, delta)
    /\ op' = "adjust_chroma"
    /\ UNCHANGED <<NormalizeFrame, trail>>

\* space = space.scale_chroma(factor)
ScaleChroma ==
    /\ op = "LCH"
    /\ \E factor \in ChromaFactors : space' = LCH_scale_chroma(space, factor)
    /\ op' = "scale_chroma"
    /\ UNCHANGED <<NormalizeFrame, trail>>

\* space = space.rotate_hue(degrees)
RotateHue ==
    /\ op = "LCH"
    /\ \E degrees \in HueChanges : space' = LCH_rotate_hue(space, degrees)
    /\ op' = "rotate_hue"
    /\ UNCHANGED <<NormalizeFrame, trail>>

\* space = space.set_hue(hue_degrees)
SetHue ==
    /\ op = "LCH"
    /\ \E hue_degrees \in DoubleHues : space' = LCH_set_hue(space, hue_degrees)
    /\ op' = "set_hue"
    /\ UNCHANGED <<NormalizeFrame, trail>>

NormalizeNext ==
    \/ ConstructHSV
    \/ NormalizeHSV
    \/ ConstructLCH
    \/ AdjustLightness
    \/ AdjustChroma
    \/ ScaleChroma
    \/ RotateHue
    \/ SetHue

SpecNormalize == NormalizeInit /\ [][NormalizeNext]_vars

\* lo <= x <= hi
Within(x, lo, hi) == ~SignedLess(x, Signed(lo, 0)) /\ ~SignedLess(Signed(hi, 0), x)

\* 0 <= h < 360
HueInRange(h) == ~Negative(h) /\ SignedLess(h, Signed(360, 0))

\* C20: after normalize an HSV has h in [0,360) and s, v in [0,1], and a second
\* normalize changes nothing; an LCH from the constructor, adjust_lightness,
\* adjust_chroma, scale_chroma, rotate_hue or set_hue has l in [0,100], c >= 0
\* and h in [0,360); LCH(400, -10, 450) holds (100, 0, 90).
NormalizeIdempotentAndInRange ==
    /\ op \in {"HSV", "HSV::normalize"} =>
           (HueInRange(space.h) /\ Within(space.s, 0, 1) /\ Within(space.v, 0, 1))
    /\ op = "HSV::normalize" =>
           /\ SignedEqual(space.h, trail[1].h)
           /\ SignedEqual(space.s, trail[1].s)
           /\ SignedEqual(space.v, trail[1].v)
    /\ op \in {"LCH", "adjust_lightness", "adjust_chroma", "scale_chroma", "rotate_hue",
               "set_hue"} =>
           (Within(space.l, 0, 100) /\ ~Negative(space.c) /\ HueInRange(space.h))
    /\ (op = "LCH" /\ trail[1].l = Signed(400, 0) /\ trail[1].c = Signed(-10, 0)
          /\ trail[1].h = Signed(450, 0)) =>
           /\ SignedEqual(space.l, Signed(100, 0))
           /\ SignedEqual(space.c, Signed(0, 0))
           /\ SignedEqual(space.h, Signed(90, 0))

-----------------------------------------------------------------------------
(* HSV::adjust_brightness and HSV::adjust_saturation, types_hsv.hpp        *)

\* the float nearest to a double; +, - and * on floats are this rounding of the
\* operation on doubles (53 >= 2 * 24 + 2)
ToFloat(x) == [neg |-> x.neg, abs |-> RoundToFloat(x.abs.m, x.abs.e, FALSE)]

\* -x
Negated(x) == [neg |-> ~x.neg, abs |-> x.abs]

\* x + y and x * y on floats
SignedFloatSum(x, y) == ToFloat(SignedSum(x, y))
SignedFloatProduct(x, y) == ToFloat(SignedProduct(x, y))

\* a + b * c on floats: rounded after the product and after the sum, or, where
\* the build contracts the expression to a fused multiply-add, once
MultiplyAdd(a, b, c, fused) ==
    IF fused THEN ToFloat(SignedSum(a, SignedProduct(b, c)))
    ELSE SignedFloatSum(a, SignedFloatProduct(b, c))

\* std::clamp(value + delta, 0.0f, 1.0f): flat addition in place of the easing
FlatAdded(value, delta, fused) ==
    SignedClamp(SignedFloatSum(value, SignedClamp(delta, Signed(-1, 0), Signed(1, 0))),
                Signed(0, 0), Signed(1, 0))

\* the body of adjust_brightness and adjust_saturation on the field value
Eased(value, delta, fused) ==
    LET d == SignedClamp(delta, Signed(-1, 0), Signed(1, 0))
    IN IF SignedLess(Signed(0, 0), d)
         THEN SignedClamp(MultiplyAdd(value, d,
                                      SignedFloatSum(Signed(1, 0), Negated(value)), fused),
                          Signed(0, 0), Signed(1, 0))
         ELSE SignedClamp(MultiplyAdd(value, d, value, fused), Signed(0, 0), Signed(1, 0))

\* HSV::adjust_brightness
HSV_adjust_brightness(x, delta, fused) == [x EXCEPT !.v = Eased(x.v, delta, fused)]

\* HSV::adjust_saturation
HSV_adjust_saturation(x, delta, fused) == [x EXCEPT !.s = Eased(x.s, delta, fused)]

\* floats in [0, 1]: 0, 2^-20, 0.3f, 0.5, 0.7f, 1 - 2^-24 and 1
UnitFloats ==
    {Signed(0, 0), Signed(1, -20), Signed(10066330, -25), Signed(1, -1),
     Signed(11744051, -24), Signed(16777215, -24), Signed(1, 0)}

\* -2, -1, -0.5, -0.3f, 0, 0.3f, 0.7f, 1 and 2
EasingDeltas ==
    {Signed(-2, 0), Signed(-1, 0), Signed(-1, -1), Signed(-10066330, -25), Signed(0, 0),
     Signed(10066330, -25), Signed(11744051, -24), Signed(1, 0), Signed(2, 0)}

\* space = HSV(90, s_, v_)
ConstructUnitHSV ==
    /\ op = "init"
    /\ \E s_ \in UnitFloats, v_ \in UnitFloats : space' = HSV(Signed(90, 0), s_, v_)
    /\ op' = "HSV"
    /\ UNCHANGED <<NormalizeFrame, trail>>

\* space.adjust_brightness(delta); trail = <<the HSV before, delta>>
AdjustBrightness ==
    /\ op = "HSV"
    /\ \E delta \in EasingDeltas, fused \in BOOLEAN :
           /\ space' = HSV_adjust_brightness(space, delta, fused)
           /\ trail' = <<space, delta>>
    /\ op' = "adjust_brightness"
    /\ UNCHANGED NormalizeFrame

\* space.adjust_saturation(delta); trail = <<the HSV before, delta>>
AdjustSaturation ==
    /\ op = "HSV"
    /\ \E delta \in EasingDeltas, fused \in BOOLEAN :
           /\ space' = HSV_adjust_saturation(space, delta, fused)
           /\ trail' = <<space, delta>>
    /\ op' = "adjust_saturation"
    /\ UNCHANGED NormalizeFrame

EasingNext ==
    \/ ConstructUnitHSV
    \/ AdjustBrightness
    \/ AdjustSaturation

SpecEasing == NormalizeInit /\ [][EasingNext]_vars

\* |x - y| <= 2^-22
Close(x, y) ==
    ~SignedLess(Signed(1, -22), SignedSum(x, Negated(y)))
        /\ ~SignedLess(Signed(1, -22), SignedSum(y, Negated(x)))

\* old + d * (1 - old) for d > 0 and old + d * old for d <= 0, d being delta
\* clamped to [-1, 1]
EasedValue(old, delta) ==
    LET d == SignedClamp(delta, Signed(-1, 0), Signed(1, 0))
    IN IF SignedLess(Signed(0, 0), d)
         THEN SignedSum(old, SignedProduct(d, SignedSum(Signed(1, 0), Negated(old))))
         ELSE SignedSum(old, SignedProduct(d, old))

\* the claim of C21 on the field before, the delta and the field after
EasedAsClaimed(old, delta, new) ==
    /\ Close(new, EasedValue(old, delta))
    /\ SignedEqual(delta, Signed(0, 0)) => SignedEqual(new, old)
    /\ ~SignedLess(delta, Signed(1, 0)) => SignedEqual(new, Signed(1, 0))
    /\ ~SignedLess(Signed(-1, 0), delta) => SignedEqual(new, Signed(0, 0))
    /\ Within(new, 0, 1)

\* C21: adjust_brightness and adjust_saturation clamp delta to [-1, 1] and
\* ease: the new value is v + delta * (1 - v) for delta > 0 and v + delta * v
\* otherwise (to float precision), so delta = 0 changes nothing, +1 gives
\* exactly 1, -1 exactly 0, the result is in [0, 1], and no other field
\* changes.
AdjustEasesOneField ==
    /\ op = "adjust_brightness" =>
           /\ EasedAsClaimed(trail[1].v, trail[2], space.v)
           /\ space.h = trail[1].h /\ space.s = trail[1].s
    /\ op = "adjust_saturation" =>
           /\ EasedAsClaimed(trail[1].s, trail[2], space.s)
           /\ space.h = trail[1].h /\ space.v = trail[1].v

\* C21: an increase by 0.3f of a value below one half, which flat addition
\* would have put elsewhere
EasedTowardsOne ==
    /\ op = "adjust_brightness"
    /\ trail[2] = Signed(10066330, -25)
    /\ trail[1].v = Signed(10066330, -25)
    /\ SignedLess(Signed(1, -1), space.v)
    /\ SignedLess(space.v, Signed(6, -1) )

-----------------------------------------------------------------------------
(* quantize_to_palette, utils.hpp                                          *)

\* the loop of quantize_to_palette with each colour after the first replaced by
\* the result before it: an item that depends on the item before
RECURSIVE quantize_chained_from(_, _, _, _)
quantize_chained_from(colors, colors_palette, k, quantized) ==
    IF k > Len(colors) THEN quantized
    ELSE quantize_chained_from(colors, colors_palette, k + 1,
             Append(quantized,
                    find_closest_color(IF k = 1 THEN colors[k] ELSE quantized[k - 1],
                                       colors_palette)))

\* the for loop of quantize_to_palette from colors[k] on
RECURSIVE quantize_from(_, _, _, _)
quantize_from(colors, colors_palette, k, quantized) ==
    IF k > Len(colors) THEN quantized
    ELSE quantize_from(colors, colors_palette, k + 1,
                       Append(quantized, find_closest_color(colors[k], colors_palette)))

\* quantize_to_palette
quantize_to_palette(colors, colors_palette) == quantize_from(colors, colors_palette, 1, <<>>)

MaxColors == 3
MaxQuantizePalette == 2

QuantizeColors == {RGB(10, 3, 0, 255), RGB(1, 9, 0, 77)}

QuantizePalette == {RGB(9, 11, 0, 255), RGB(9, 0, 0, 255), RGB(0, 0, 0, 255)}

\* trail is the argument colors, palette the argument palette
QuantizeInit ==
    /\ op = "init"
    /\ palette \in UNION {[1..n -> QuantizePalette] : n \in 0..MaxQuantizePalette}
    /\ trail \in UNION {[1..n -> QuantizeColors] : n \in 0..MaxColors}
    /\ color = RGB_default
    /\ other = RGB_default
    /\ param = 0
    /\ space = NoSpace
    /\ result = RGB_default
    /\ hsl = HSL_default
    /\ output = <<>>
    /\ scalar = 0

\* output = quantize_to_palette(trail, palette); both arguments are const
\* references
QuantizeToPalette ==
    /\ op = "init"
    /\ output' = quantize_to_palette(trail, palette)
    /\ op' = "quantize_to_palette"
    /\ UNCHANGED <<color, other, param, space, result, hsl, trail, palette, scalar>>

QuantizeNext == QuantizeToPalette

SpecQuantize == QuantizeInit /\ [][QuantizeNext]_vars

\* the result quantized of a call on colors and colors_palette is as C22 says
QuantizedItemwise(colors, colors_palette, quantized) ==
    /\ Len(quantized) = Len(colors)
    /\ \A i \in 1..Len(colors) :
           /\ quantized[i] = find_closest_color(colors[i], colors_palette)
           /\ quantized[i] = quantize_to_palette(<<colors[i]>>, colors_palette)[1]
           /\ colors_palette # <<>> =>
                  \E k \in 1..Len(colors_palette) : quantized[i] = colors_palette[k]
    /\ colors_palette = <<>> => quantized = colors

\* C22: quantize_to_palette returns as many colours as it was given,
\* output[i] = find_closest_color(colors[i], palette) whatever the other
\* items are, each output colour is in a non-empty palette, an empty palette
\* gives back colors, and the call changes neither argument.
QuantizeItemwise ==
    [][/\ trail' = trail
       /\ palette' = palette
       /\ QuantizedItemwise(trail, palette, output')]_vars

\* C22: three colours were quantized to a palette of two, not all to the same
\* colour, and the first not to itself
QuantizedToDifferent ==
    /\ op = "quantize_to_palette"
    /\ Len(trail) = 3
    /\ Len(palette) = 2
    /\ output[1] # output[2]
    /\ output[1] # trail[1]

-----------------------------------------------------------------------------
(* Scheme generators, utils.hpp                                            *)

\* static_cast<int>(x) for a double x of either sign
SignedToInt(x) == IF x.neg THEN -DoubleToInt(x.abs) ELSE DoubleToInt(x.abs)

\* amount * 255 for amount = 0.1 * steps, on doubles
AmountTimes255(steps) ==
    [neg |-> FALSE,
     abs |-> DoubleProduct(DoubleProduct(DoubleLiteral(1, 10), Double(steps)), Double(255))]

\* HSL::lighten(0.1 * steps)
HSL_lighten(x, steps) ==
    [x EXCEPT !.l = Clamp(SignedToInt(SignedSum(Signed(x.l, 0), AmountTimes255(steps))),
                          0, 255)]

\* HSL::darken(0.1 * steps)
HSL_darken(x, steps) ==
    [x EXCEPT !.l = Clamp(SignedToInt(SignedSum(Signed(x.l, 0),
                                                Negated(AmountTimes255(steps)))),
                          0, 255)]

\* the for loop of generate_monochromatic with the darker and the lighter
\* branch exchanged
RECURSIVE monochromatic_inverted_from(_, _, _, _, _)
monochromatic_inverted_from(base, x, count, i, colors) ==
    IF i >= count THEN colors
    ELSE monochromatic_inverted_from(base, x, count, i + 1,
             Append(colors,
                    IF i = count \div 2 THEN base
                    ELSE IF i < count \div 2
                           THEN HSL_to_rgb(HSL_lighten(x, count \div 2 - i))
                    ELSE HSL_to_rgb(HSL_darken(x, i - count \div 2))))

\* the for loop of generate_monochromatic from i on; x is HSL::fromRGB(base)
RECURSIVE monochromatic_from(_, _, _, _, _)
monochromatic_from(base, x, count, i, colors) ==
    IF i >= count THEN colors
    ELSE monochromatic_from(base, x, count, i + 1,
             Append(colors,
                    IF i = count \div 2 THEN base
                    ELSE IF i < count \div 2
                           THEN HSL_to_rgb(HSL_darken(x, count \div 2 - i))
                    ELSE HSL_to_rgb(HSL_lighten(x, i - count \div 2))))

\* generate_monochromatic
generate_monochromatic(base, count) ==
    CHOOSE colors \in {monochromatic_from(base, x, count, 0, <<>>) :
                          x \in {HSL_fromRGB(base)}} : TRUE

\* constexpr double GOLDEN_ANGLE = 137.507764050, the double nearest to
\* 13750776405 / 10^8
GOLDEN_ANGLE ==
    DoubleQuotient([m |-> BigMul(Big(15), Big(916718427)), e |-> 0], Double(100000000))

\* hsl.adjust_hue(GOLDEN_ANGLE * i) for an i whose angle times 100 fits an int
adjust_hue_golden(x, i) ==
    [x EXCEPT !.h = ToUint16(WrapHue(x.h +
         DoubleToInt(DoubleProduct(DoubleProduct(GOLDEN_ANGLE, Double(i)), Double(100)))))]

\* the for loop of generate_golden_ratio_scheme from i on
RECURSIVE golden_ratio_from(_, _, _, _)
golden_ratio_from(x, count, i, colors) ==
    IF i >= count THEN colors
    ELSE golden_ratio_from(x, count, i + 1,
                           Append(colors, HSL_to_rgb(adjust_hue_golden(x, i))))

\* generate_golden_ratio_scheme
generate_golden_ratio_scheme(base, count) ==
    CHOOSE colors \in {golden_ratio_from(x, count, 1, <<base>>) :
                          x \in {HSL_fromRGB(base)}} : TRUE

\* generate_harmony with the two analogous colours in the order +30, -30
harmony_of_swapped(base, x, scheme) ==
    {<<base, HSL_to_rgb(t[3]), HSL_to_rgb(t[1])>> : t \in analogous(x, 30 * EIGHTHS)}

\* generate_harmony after hsl = HSL::fromRGB(base): the results the build can
\* produce
harmony_of(base, x, scheme) ==
    CASE scheme = "complementary" ->
             {<<base, HSL_to_rgb(y)>> : y \in complement(x)}
      [] scheme = "triadic" ->
             {<<base, HSL_to_rgb(t[2]), HSL_to_rgb(t[3])>> : t \in triadic(x)}
      [] scheme = "split_complementary" ->
             {<<base, HSL_to_rgb(t[2]), HSL_to_rgb(t[3])>> :
                 t \in split_complementary(x, 30 * EIGHTHS)}
      [] scheme = "analogous" ->
             {<<base, HSL_to_rgb(t[1]), HSL_to_rgb(t[3])>> : t \in analogous(x, 30 * EIGHTHS)}
      [] scheme = "tetradic" ->
             {<<base, HSL_to_rgb(a), HSL_to_rgb(b), HSL_to_rgb(c)>> :
                 a \in adjust_hue(x, 90 * EIGHTHS), b \in adjust_hue(x, 180 * EIGHTHS),
                 c \in adjust_hue(x, 270 * EIGHTHS)}
      [] scheme = "monochromatic" -> {generate_monochromatic(base, 5)}
      [] scheme = "golden_ratio" -> {generate_golden_ratio_scheme(base, 5)}
      [] OTHER -> {<<base>>}

\* generate_harmony
generate_harmony(base, scheme) ==
    CHOOSE results \in {harmony_of(base, x, scheme) : x \in {HSL_fromRGB(base)}} : TRUE

MaxCount == 5

\* the base colours of the generators
GenerateBases ==
    {RGB(200, 127, 100, 77), RGB(250, 250, 250, 255), RGB(3, 64, 192, 255),
     RGB(0, 0, 0, 255), RGB(13, 65, 33, 255), RGB(255, 0, 0, 255),
     RGB(10, 128, 243, 128), RGB(128, 128, 128, 255)}

Schemes ==
    {"complementary", "triadic", "split_complementary", "analogous", "tetradic",
     "monochromatic", "golden_ratio", "pentadic", ""}

\* color is the base colour
GenerateInit ==
    /\ op = "init"
    /\ color \in GenerateBases
    /\ other = RGB_default
    /\ param = 0
    /\ space = NoSpace
    /\ result = RGB_default
    /\ hsl = HSL_default
    /\ trail = <<>>
    /\ palette = <<>>
    /\ output = <<>>
    /\ scalar = 0

\* output = generate_monochromatic(color, count), param = count
GenerateMonochromatic ==
    /\ op = "init"
    /\ \E count \in 1..MaxCount :
           /\ param' = count
           /\ output' = generate_monochromatic(color, count)
    /\ op' = "generate_monochromatic"
    /\ UNCHANGED <<color, other, space, result, hsl, trail, palette, scalar>>

\* output = generate_golden_ratio_scheme(color, count), param = count
GenerateGoldenRatioScheme ==
    /\ op = "init"
    /\ \E count \in 0..MaxCount :
           /\ param' = count
           /\ output' = generate_golden_ratio_scheme(color, count)
    /\ op' = "generate_golden_ratio_scheme"
    /\ UNCHANGED <<color, other, space, result, hsl, trail, palette, scalar>>

\* output = generate_harmony(color, scheme), trail = <<scheme>>
GenerateHarmony ==
    /\ op = "init"
    /\ \E scheme \in Schemes :
           /\ trail' = <<scheme>>
           /\ output' \in generate_harmony(color, scheme)
    /\ op' = "generate_harmony"
    /\ UNCHANGED <<color, other, param, space, result, hsl, palette, scalar>>

GenerateNext ==
    \/ GenerateMonochromatic
    \/ GenerateGoldenRatioScheme
    \/ GenerateHarmony

SpecGenerate == GenerateInit /\ [][GenerateNext]_vars

\* what C23 says of the entries of generate_monochromatic(color, param): param
\* colours, the base at index param / 2, before it the base's HSL darkened and
\* after it lightened in steps of 0.1 with hue and saturation kept, and the
\* HSL lightness non-decreasing along the list
MonochromaticEntries ==
    LET x == HSL_fromRGB(color)
        mid == param \div 2
    IN /\ Len(output) = param
       /\ output[mid + 1] = color
       /\ \A i \in 0..(mid - 1) :
              /\ output[i + 1] = HSL_to_rgb(HSL_darken(x, mid - i))
              /\ HSL_darken(x, mid - i).h = x.h /\ HSL_darken(x, mid - i).s = x.s
              /\ HSL_darken(x, mid - i).l <= x.l
       /\ \A i \in (mid + 1)..(param - 1) :
              /\ output[i + 1] = HSL_to_rgb(HSL_lighten(x, i - mid))
              /\ HSL_lighten(x, i - mid).h = x.h /\ HSL_lighten(x, i - mid).s = x.s
              /\ HSL_lighten(x, i - mid).l >= x.l
       /\ \A i \in 1..(param - 1) :
              HSL_fromRGB(output[i]).l <= HSL_fromRGB(output[i + 1]).l

\* the numbers of entries before and after the base
DarkerEntries == Cardinality({i \in 1..Len(output) : i < param \div 2 + 1})
LighterEntries == Cardinality({i \in 1..Len(output) : i > param \div 2 + 1})

\* C23: generate_monochromatic(base, count), count >= 1, returns count
\* colours, the base at index count / 2, darker entries before it and lighter
\* entries after it in steps of 0.1, as many darker as lighter, hue and
\* saturation kept and lightness non-decreasing.
MonochromaticSymmetric ==
    op = "generate_monochromatic" =>
        (MonochromaticEntries /\ DarkerEntries = LighterEntries)

\* C23, amended: as above, with as many darker as lighter entries for an odd
\* count and one more darker than lighter for an even count.
MonochromaticDarkerHalfFirst ==
    op = "generate_monochromatic" =>
        /\ MonochromaticEntries
        /\ DarkerEntries = param \div 2
        /\ LighterEntries = (param - 1) \div 2
        /\ DarkerEntries = LighterEntries + (IF param % 2 = 0 THEN 1 ELSE 0)

\* C23: four colours were generated, two darker than the base and one lighter
MonochromaticOfFour ==
    /\ op = "generate_monochromatic"
    /\ param = 4
    /\ output[3] = color
    /\ HSL_fromRGB(output[1]).l < HSL_fromRGB(output[2]).l
    /\ HSL_fromRGB(output[2]).l < HSL_fromRGB(output[3]).l
    /\ HSL_fromRGB(output[3]).l < HSL_fromRGB(output[4]).l

\* the hue offsets of a scheme in degrees, in the order of the result
HarmonyOffsets(scheme) ==
    CASE scheme = "complementary" -> <<180>>
      [] scheme = "triadic" -> <<120, 240>>
      [] scheme = "split_complementary" -> <<150, 210>>
      [] scheme = "analogous" -> <<-30, 30>>
      [] scheme = "tetradic" -> <<90, 180, 270>>
      [] OTHER -> <<>>

\* the whole hundredths of a degree in 137.507764050 * i degrees
GoldenHundredths(i) == 13750 * i + (776405 * i) \div 1000000

\* C24: generate_harmony and generate_golden_ratio_scheme return the base
\* followed by HSL::fromRGB(base).adjust_hue(d).to_rgb() for d in [180]
\* (complementary), [120, 240] (triadic), [150, 210] (split_complementary),
\* [-30, +30] (analogous), [90, 180, 270] (tetradic) and
\* [137.507764050 * i for i = 1..count-1] (golden ratio), in that order; an
\* unrecognised scheme name gives [base].
HarmonyIsBaseThenRotations ==
    /\ (op = "generate_harmony" /\ trail[1] \notin {"monochromatic", "golden_ratio"}) =>
           /\ Len(output) = 1 + Len(HarmonyOffsets(trail[1]))
           /\ output[1] = color
           /\ \A k \in 1..Len(HarmonyOffsets(trail[1])) :
                  output[k + 1] \in
                      {HSL_to_rgb(y) :
                          y \in adjust_hue(HSL_fromRGB(color),
                                           HarmonyOffsets(trail[1])[k] * EIGHTHS)}
    /\ op = "generate_golden_ratio_scheme" =>
           /\ Len(output) = Max(param, 1)
           /\ output[1] = color
           /\ \A i \in 1..(param - 1) :
                  output[i + 1] =
                      HSL_to_rgb([HSL_fromRGB(color) EXCEPT
                                      !.h = (@ + GoldenHundredths(i)) % FULL_TURN])

\* C24: an analogous scheme of three different colours
HarmonyAnalogous ==
    /\ op = "generate_harmony"
    /\ trail = <<"analogous">>
    /\ Len(output) = 3
    /\ output[2] # output[3]
    /\ output[2] # color

-----------------------------------------------------------------------------
(* The lookup tables under concurrent readers                              *)
(* scalar holds, per table, the number of entries written so far; trail    *)
(* holds each thread's position in its lookup; space holds the way the     *)
(* build initialises the tables; op is the part of the program running.    *)

\* the four tables in the order of their definitions
TableOrder == <<"gamma_to_linear", "linear_to_gamma", "lab_f", "lab_f_inv">>
TableNames == {TableOrder[k] : k \in 1..Len(TableOrder)}

TableSize(table) ==
    CASE table = "gamma_to_linear" -> GAMMA_TABLE_SIZE
      [] table = "linear_to_gamma" -> LINEAR_TABLE_SIZE
      [] table = "lab_f" -> LAB_F_TABLE_SIZE
      [] table = "lab_f_inv" -> LAB_F_TABLE_SIZE

\* entry i as the create_*_table function of the table computes it
TableEntry(table, i) ==
    CASE table = "gamma_to_linear" -> gamma_to_linear(i)
      [] table = "linear_to_gamma" -> linear_to_gamma(i)
      [] table = "lab_f" -> lab_f(i)
      [] table = "lab_f_inv" -> lab_f_inv(i)

\* table[i] while written entries of the table have been written: the storage
\* of an object of static storage duration is zero before its initialisation
StoredEntry(written, table, i) ==
    IF i < written[table] THEN TableEntry(table, i) ELSE 0

\* the index a fast_* lookup computes from its argument
LookupIndex(table, val) ==
    CASE table = "gamma_to_linear" -> val
      [] table = "linear_to_gamma" -> TableIndex(val, LINEAR_TABLE_SIZE)
      [] table = "lab_f" -> TableIndex(TDiv(val, 2), LAB_F_TABLE_SIZE)
      [] table = "lab_f_inv" -> TableIndex(TDiv(val, 2), LAB_F_TABLE_SIZE)

\* what a lookup returns in a program of one thread
SingleThreaded(table, val) ==
    CASE table = "gamma_to_linear" -> fast_gamma_to_linear(val)
      [] table = "linear_to_gamma" -> fast_linear_to_gamma(val)
      [] table = "lab_f" -> fast_lab_f(val)
      [] table = "lab_f_inv" -> fast_lab_f_inv(val)

TablesBuilt(written) == \A table \in TableNames : written[table] = TableSize(table)

MaxThreads == 2
Threads == 1..MaxThreads

\* the uint8_t arguments and the double arguments of the lookups
ByteArguments == {0, 200, 255}
DoubleArguments == {-(S \div 2), S \div 3, 3 * S}
Arguments(table) == IF table = "gamma_to_linear" THEN ByteArguments ELSE DoubleArguments

\* thread t outside a lookup
Idle(t) == [pc |-> "idle", table |-> "", val |-> 0, index |-> 0, value |-> 0]

\* the tables are either constant-initialised (the compiler evaluates the
\* create_*_table calls, the arrays are read-only data of the image) or
\* initialised dynamically before main is entered
TablesInit ==
    /\ op = "static_initialization"
    /\ space \in {[type |-> "constant_initialization"], [type |-> "dynamic_initialization"]}
    /\ scalar = [table \in TableNames |->
                    IF space.type = "constant_initialization" THEN TableSize(table) ELSE 0]
    /\ trail = [t \in Threads |-> Idle(t)]
    /\ color = RGB_default /\ other = RGB_default /\ result = RGB_default
    /\ hsl = HSL_default /\ param = 0 /\ palette = <<>> /\ output = <<>>

TablesFrame == <<color, other, param, space, result, hsl, palette, output>>

\* the table being initialised: the first in order that is not complete
NextTable ==
    TableOrder[CHOOSE k \in 1..Len(TableOrder) :
                   /\ scalar[TableOrder[k]] < TableSize(TableOrder[k])
                   /\ \A j \in 1..(k - 1) : scalar[TableOrder[j]] = TableSize(TableOrder[j])]

\* one iteration of the loop of a create_*_table function
WriteEntry ==
    /\ op = "static_initialization"
    /\ ~TablesBuilt(scalar)
    /\ scalar' = [scalar EXCEPT ![NextTable] = @ + 1]
    /\ UNCHANGED <<op, trail>>
    /\ UNCHANGED TablesFrame

\* static initialisation started main too early: it does not wait for the
\* tables
EnterMainEarly ==
    /\ op = "static_initialization"
    /\ op' = "main"
    /\ UNCHANGED <<scalar, trail>>
    /\ UNCHANGED TablesFrame

\* main is entered when the initialisation of the objects of static storage
\* duration is complete
EnterMain ==
    /\ op = "static_initialization"
    /\ TablesBuilt(scalar)
    /\ op' = "main"
    /\ UNCHANGED <<scalar, trail>>
    /\ UNCHANGED TablesFrame

\* a thread calls a fast_* function: std::clamp and the index are local
CallLookup(t) ==
    /\ op = "main"
    /\ trail[t].pc = "idle"
    /\ \E table \in TableNames : \E val \in Arguments(table) :
           trail' = [trail EXCEPT ![t] =
                        [pc |-> "indexed", table |-> table, val |-> val,
                         index |-> LookupIndex(table, val), value |-> 0]]
    /\ UNCHANGED <<op, scalar>>
    /\ UNCHANGED TablesFrame

\* the thread reads table[index], without a lock
ReadEntry(t) ==
    /\ trail[t].pc = "indexed"
    /\ trail' = [trail EXCEPT ![t] =
                    [@ EXCEPT !.pc = "returned",
                              !.value = StoredEntry(scalar, trail[t].table, trail[t].index)]]
    /\ UNCHANGED <<op, scalar>>
    /\ UNCHANGED TablesFrame

\* the caller takes the value
ReturnValue(t) ==
    /\ trail[t].pc = "returned"
    /\ trail' = [trail EXCEPT ![t] = Idle(t)]
    /\ UNCHANGED <<op, scalar>>
    /\ UNCHANGED TablesFrame

TablesNext ==
    \/ WriteEntry
    \/ EnterMain
    \/ \E t \in Threads : CallLookup(t)
    \/ \E t \in Threads : ReadEntry(t)
    \/ \E t \in Threads : ReturnValue(t)

SpecTables == TablesInit /\ [][TablesNext]_vars

\* a lookup is in progress only on complete tables, and what it returned is
\* what the single-threaded call returns
LookupsReadBuiltTables ==
    \A t \in Threads :
        /\ trail[t].pc # "idle" => TablesBuilt(scalar)
        /\ trail[t].pc = "returned" =>
               trail[t].value = SingleThreaded(trail[t].table, trail[t].val)

\* C25: the lookup tables are written only during their one-time
\* construction, which completes before any lookup from any thread runs;
\* afterwards no operation writes to them, and concurrent lookups without
\* locking read fully built tables and return what a single-threaded call
\* returns.
TablesWriteOnceThenReadOnly ==
    /\ [](op \in {"static_initialization", "main"} => LookupsReadBuiltTables)
    /\ [][/\ scalar' # scalar => (op = "static_initialization" /\ ~TablesBuilt(scalar))
          /\ TablesBuilt(scalar) => scalar' = scalar]_vars

\* C25: after a dynamic initialisation two threads are inside lookups of the
\* same table at the same time, one of them having read its entry
ConcurrentLookups ==
    /\ op = "main"
    /\ space.type = "dynamic_initialization"
    /\ trail[1].pc = "returned"
    /\ trail[2].pc = "indexed"
    /\ trail[1].table = "lab_f" /\ trail[2].table = "lab_f"
    /\ trail[1].value # 0

-----------------------------------------------------------------------------
(* The lookups on every double                                             *)
(* param holds the argument: a finite double (fixed point), an infinity or *)
(* a NaN; scalar holds the index computed and whether the read faulted.    *)

Finite(v_) == [kind |-> "finite", number |-> v_]
NaN == [kind |-> "nan", number |-> 0]
PlusInfinity == [kind |-> "inf", number |-> 0]
MinusInfinity == [kind |-> "-inf", number |-> 0]

\* t / 2.0
Halved(t) == IF t.kind = "finite" THEN Finite(TDiv(t.number, 2)) ELSE t

\* std::clamp(v, 0.0, 1.0) == (v < lo) ? lo : (hi < v) ? hi : v; every
\* comparison with a NaN is false
clamp_unit(x) ==
    CASE x.kind = "nan" -> x
      [] x.kind = "inf" -> Finite(S)
      [] x.kind = "-inf" -> Finite(0)
      [] OTHER -> Finite(Clamp(x.number, 0, S))

\* 2^63, what the x86-64 conversion to size_t makes of a NaN
SIZE_HIGH_BIT == BigShl(Big(1), 63)

\* static_cast<size_t>(x * (size - 1)) with x clamped: the conversion of a NaN
\* is undefined, 2^63 on x86-64 and 0 where the conversion saturates
index_of(x, size) ==
    IF x.kind = "nan" THEN {SIZE_HIGH_BIT, Big(0)}
    ELSE {Big(Times(x.number, size - 1))}

unit_index(val, size) == index_of(clamp_unit(val), size)

\* the indices the body of a fast_* function can compute
lookup_indices(table, val) ==
    CASE table = "gamma_to_linear" -> {Big(val.number)}
      [] table = "linear_to_gamma" -> unit_index(val, LINEAR_TABLE_SIZE)
      [] table = "lab_f" -> unit_index(Halved(val), LAB_F_TABLE_SIZE)
      [] table = "lab_f_inv" -> unit_index(Halved(val), LAB_F_TABLE_SIZE)

InBounds(table, index) == BigLess(index, Big(TableSize(table)))

\* table[index]: a read outside the array is undefined, it faults or returns
\* what lies there
reads(table, index) ==
    IF InBounds(table, index)
    THEN {[index |-> index, error |-> FALSE]}
    ELSE {[index |-> index, error |-> e] : e \in BOOLEAN}

\* every uint8_t, and doubles below, inside and above [0, 2], with the
\* special values of the type
LookupBytes == 0..(GAMMA_TABLE_SIZE - 1)
LookupDoubles ==
    {Finite(v) : v \in {-3 * S, -1, 0, 1, S \div 4095, S \div 2, S - 1, S, S + 1,
                        2 * S - 1, 2 * S, 2 * S + 1, 1000 * S}}
        \cup {NaN, PlusInfinity, MinusInfinity}

LookupInit ==
    /\ op = "init"
    /\ param = Finite(0)
    /\ scalar = [index |-> Big(0), error |-> FALSE]
    /\ color = RGB_default /\ other = RGB_default /\ result = RGB_default
    /\ hsl = HSL_default /\ space = NoSpace
    /\ trail = <<>> /\ palette = <<>> /\ output = <<>>

LookupFrame == <<color, other, space, result, hsl, trail, palette, output>>

Lookup(name, table, val) ==
    /\ op' = name
    /\ param' = val
    /\ \E index \in lookup_indices(table, val) : scalar' \in reads(table, index)
    /\ UNCHANGED LookupFrame

FastGammaToLinear == \E val \in LookupBytes :
    Lookup("fast_gamma_to_linear", "gamma_to_linear", Finite(val))

FastLinearToGamma == \E val \in LookupDoubles :
    Lookup("fast_linear_to_gamma", "linear_to_gamma", val)

FastLabF == \E t \in LookupDoubles : Lookup("fast_lab_f", "lab_f", t)

FastLabFInv == \E t \in LookupDoubles : Lookup("fast_lab_f_inv", "lab_f_inv", t)

LookupNext ==
    \/ FastGammaToLinear
    \/ FastLinearToGamma
    \/ FastLabF
    \/ FastLabFInv

SpecLookup == LookupInit /\ [][LookupNext]_vars

\* the table an operation of SpecLookup reads and the top of its domain
TableOf(name) ==
    CASE name = "fast_gamma_to_linear" -> "gamma_to_linear"
      [] name = "fast_linear_to_gamma" -> "linear_to_gamma"
      [] name = "fast_lab_f" -> "lab_f"
      [] name = "fast_lab_f_inv" -> "lab_f_inv"

DomainTop(name) == IF name = "fast_linear_to_gamma" THEN S ELSE 2 * S

Below(x) == x.kind = "-inf" \/ (x.kind = "finite" /\ x.number <= 0)
Above(x, top) == x.kind = "inf" \/ (x.kind = "finite" /\ x.number >= top)

\* C26: table lookups never index out of bounds: for every input value the
\* index is in [0, 4095] (in [0, 255] for fast_gamma_to_linear), inputs below
\* the domain read entry 0, inputs above it read the last entry, and there is
\* no error.
LookupIndexInBounds ==
    op # "init" =>
        /\ InBounds(TableOf(op), scalar.index)
        /\ ~scalar.error
        /\ (op # "fast_gamma_to_linear" /\ Below(param)) => scalar.index = Big(0)
        /\ (op # "fast_gamma_to_linear" /\ Above(param, DomainTop(op))) =>
               scalar.index = Big(TableSize(TableOf(op)) - 1)

\* C26 for the arguments that are numbers: every double that is not a NaN
LookupIndexInBoundsOfNumbers == param.kind # "nan" => LookupIndexInBounds

\* C26: an argument above the domain read the last entry of lab_f
LookupAboveDomain ==
    /\ op = "fast_lab_f"
    /\ param = Finite(1000 * S)
    /\ scalar.index = Big(LAB_F_TABLE_SIZE - 1)
    /\ ~scalar.error

-----------------------------------------------------------------------------
(* The textual constructors, types_basic.hpp and types_hsl.hpp             *)
(* A std::string is the sequence of its characters.  The strings are over  *)
(* the digits, the letters a b c d f g h l r s and ( ) , # % + - . and the  *)
(* blank, where std::stoi and std::stod read a sign, digits and (stod) a   *)
(* decimal point: no exponent, hexadecimal prefix, infinity or NaN.        *)

NPOS == -1

\* s.substr(pos, n) for pos <= s.size()
substr(s, pos, n) == SubSeq(s, pos + 1, Min(pos + n, Len(s)))

\* s.find(c, start): the first position at or after start that holds c
find(s, c, start) ==
    IF \E i \in (start + 1)..Len(s) : s[i] = c
    THEN (CHOOSE i \in (start + 1)..Len(s) :
              s[i] = c /\ \A j \in (start + 1)..(i - 1) : s[j] # c) - 1
    ELSE NPOS

\* clean.erase(std::remove(clean.begin(), clean.end(), ' '), clean.end())
without_spaces(s) == SelectSeq(s, LAMBDA c : c # " ")

\* the loop that splits values by commas
RECURSIVE split_from(_, _, _)
split_from(values, pos, parts) ==
    IF pos >= Len(values) THEN parts
    ELSE CHOOSE r \in
        {IF comma = NPOS
           THEN Append(parts, substr(values, pos, Len(values)))
           ELSE split_from(values, comma + 1, Append(parts, substr(values, pos, comma - pos))) :
             comma \in {find(values, ",", pos)}} : TRUE

\* the values between the brackets, split; <<"error">> without a bracket
css_parts(css_str) ==
    LET clean == without_spaces(css_str)
        start == find(clean, "(", 0)
        end == IF start = NPOS THEN NPOS ELSE find(clean, ")", start)
    IN IF start = NPOS \/ end = NPOS THEN [error |-> "invalid_argument", parts |-> <<>>]
       ELSE [error |-> "none",
             parts |-> split_from(substr(clean, start + 1, end - start - 1), 0, <<>>)]

DIGITS == <<"0", "1", "2", "3", "4", "5", "6", "7", "8", "9", "a", "b", "c", "d", "e", "f">>

\* the value of the digit c in the base, -1 when c is no digit of the base
DigitOf(c, base) ==
    IF \E k \in 1..base : DIGITS[k] = c THEN (CHOOSE k \in 1..base : DIGITS[k] = c) - 1 ELSE -1

\* the position after the digits that start at i
RECURSIVE DigitsEnd(_, _, _)
DigitsEnd(s, i, base) ==
    IF i <= Len(s) /\ DigitOf(s[i], base) >= 0 THEN DigitsEnd(s, i + 1, base) ELSE i

\* the natural number written in s[i .. j - 1]
RECURSIVE DigitsValue(_, _, _, _, _)
DigitsValue(s, i, j, base, acc) ==
    IF i >= j THEN acc
    ELSE DigitsValue(s, i + 1, j, base, BigAdd(BigTimes(acc, base), Big(DigitOf(s[i], base))))

\* the position of the first character after the leading blanks and the sign
RECURSIVE AfterBlanks(_, _)
AfterBlanks(s, i) == IF i <= Len(s) /\ s[i] = " " THEN AfterBlanks(s, i + 1) ELSE i

SignAt(s, i) == IF i <= Len(s) /\ s[i] \in {"+", "-"} THEN s[i] ELSE ""

\* a natural number below 2^31 as an integer
BigToInt(n) == Digit(n, 1) + Digit(n, 2) * LIMB + Digit(n, 3) * LIMB * LIMB

\* std::stoi(str, nullptr, base): blanks, a sign, digits; std::invalid_argument
\* without a digit, std::out_of_range when the number does not fit an int
stoi(str, base) ==
    LET b == AfterBlanks(str, 1)
        sign == SignAt(str, b)
        i == IF sign = "" THEN b ELSE b + 1
        j == DigitsEnd(str, i, base)
        n == DigitsValue(str, i, j, base, <<>>)
    IN IF j = i THEN [error |-> "invalid_argument", value |-> 0]
       ELSE IF sign = "-"
              THEN (IF BigLess(BigShl(Big(1), 31), n)
                      THEN [error |-> "out_of_range", value |-> 0]
                    ELSE IF n = BigShl(Big(1), 31) THEN [error |-> "none", value |-> INT_MIN]
                    ELSE [error |-> "none", value |-> -BigToInt(n)])
       ELSE IF BigLess(Big(INT_MAX), n) THEN [error |-> "out_of_range", value |-> 0]
       ELSE [error |-> "none", value |-> BigToInt(n)]

\* 10^k
RECURSIVE BigPowerOfTen(_)
BigPowerOfTen(k) == IF k = 0 THEN Big(1) ELSE BigTimes(BigPowerOfTen(k - 1), 10)

\* std::stod(str): blanks, a sign, digits with at most one decimal point; the
\* number has at most 15 digits, so it and the power of ten are doubles and
\* their quotient is the double nearest to the decimal
stod(str) ==
    LET b == AfterBlanks(str, 1)
        sign == SignAt(str, b)
        i == IF sign = "" THEN b ELSE b + 1
        j == DigitsEnd(str, i, 10)
        point == j <= Len(str) /\ str[j] = "."
        k == IF point THEN DigitsEnd(str, j + 1, 10) ELSE j
        fraction == IF point THEN k - (j + 1) ELSE 0
        n == IF point THEN DigitsValue(str, j + 1, k, 10, DigitsValue(str, i, j, 10, <<>>))
             ELSE DigitsValue(str, i, j, 10, <<>>)
    IN IF j - i + fraction = 0 THEN [error |-> "invalid_argument", value |-> Signed(0, 0)]
       ELSE [error |-> "none",
             value |-> [neg |-> sign = "-",
                        abs |-> DoubleQuotient(RoundToDouble(n, 0, FALSE),
                                               RoundToDouble(BigPowerOfTen(fraction), 0, FALSE))]]

\* static_cast<int>(x) on a double: undefined when x does not fit an int, then
\* INT_MIN (x86 cvttsd2si) or the saturated value
DoubleToIntOutcomes(x) ==
    IF DoubleLess(x.abs, [m |-> Big(1), e |-> 31]) THEN {SignedToInt(x)}
    ELSE {INT_MIN, IF x.neg THEN INT_MIN ELSE INT_MAX}

\* the constructor threw: there is no object
NoObject == [type |-> "none"]
Thrown(what) == [error |-> what, value |-> NoObject]
Constructed(x) == [error |-> "none", value |-> x]

\* the first error among the conversions, "none" without one
FirstError(conversions) ==
    IF \E k \in 1..Len(conversions) : conversions[k].error # "none"
    THEN conversions[CHOOSE k \in 1..Len(conversions) :
                         /\ conversions[k].error # "none"
                         /\ \A j \in 1..(k - 1) : conversions[j].error = "none"].error
    ELSE "none"

\* RGB::parse_css_rgb: the outcomes of the constructor
parse_css_rgb(css_str) ==
    LET split == css_parts(css_str)
        parts == split.parts
    IN IF split.error # "none" THEN {Thrown(split.error)}
       ELSE IF Len(parts) < 3 \/ Len(parts) > 4 THEN {Thrown("invalid_argument")}
       ELSE CHOOSE r \in
           {IF FirstError(c) # "none" THEN {Thrown(FirstError(c))}
            ELSE {Constructed(RGB(Clamp(c[1].value, 0, 255), Clamp(c[2].value, 0, 255),
                                  Clamp(c[3].value, 0, 255), a)) :
                     a \in IF Len(parts) = 4
                           THEN {Clamp(n, 0, 255) :
                                    n \in DoubleToIntOutcomes(
                                              SignedProduct(c[4].value, Signed(255, 0)))}
                           ELSE {255}} :
              c \in {<<stoi(parts[1], 10), stoi(parts[2], 10), stoi(parts[3], 10)>>
                       \o (IF Len(parts) = 4 THEN <<stod(parts[4])>> ELSE <<>>)}} : TRUE

\* every character of h twice
RECURSIVE doubled(_)
doubled(h) == IF h = <<>> THEN <<>> ELSE <<Head(h), Head(h)>> \o doubled(Tail(h))

\* the hexadecimal branch of RGB(const std::string &)
parse_hex(color_str) ==
    LET h1 == IF Head(color_str) = "#" THEN Tail(color_str) ELSE color_str
        h2 == IF Len(h1) = 3 THEN doubled(h1) ELSE h1
        h == IF Len(h2) = 6 THEN h2 \o <<"f", "f">> ELSE h2
    IN IF Len(h) # 8 THEN {Thrown("invalid_argument")}
       ELSE CHOOSE r \in
           {IF FirstError(c) # "none" THEN {Thrown(FirstError(c))}
            ELSE {Constructed(RGB(ToUint8(c[1].value), ToUint8(c[2].value),
                                  ToUint8(c[3].value), ToUint8(c[4].value)))} :
              c \in {<<stoi(substr(h, 0, 2), 16), stoi(substr(h, 2, 2), 16),
                       stoi(substr(h, 4, 2), 16), stoi(substr(h, 6, 2), 16)>>}} : TRUE

\* RGB(const std::string &color_str): the outcomes
RGB_of_string(color_str) ==
    IF color_str = <<>> THEN {Thrown("invalid_argument")}
    ELSE IF substr(color_str, 0, 4) = <<"r", "g", "b", "(">> \/ substr(color_str, 0, 5) = <<"r", "g", "b", "a", "(">>
           THEN parse_css_rgb(color_str)
    ELSE parse_hex(color_str)

\* the part without the % at its end
without_percent(part) ==
    IF part # <<>> /\ part[Len(part)] = "%" THEN SubSeq(part, 1, Len(part) - 1) ELSE part

\* static_cast<uint8_t>(std::clamp(x, 0.0, 1.0) * 255)
UnitByte(x) ==
    DoubleToInt(DoubleProduct(SignedClamp(x, Signed(0, 0), Signed(1, 0)).abs, Double(255)))

\* x / 100.0
Hundredth(x) == [neg |-> x.neg, abs |-> DoubleQuotient(x.abs, Double(100))]

\* static_cast<uint16_t>(normalized_h * 100) with normalized_h the hue wrapped
\* by std::fmod and one addition of 360
HueOfDouble(hue) ==
    LET fmod_h == SignedFmod360(hue)
        normalized_h == IF Negative(fmod_h) THEN SignedSum(fmod_h, Signed(360, 0)) ELSE fmod_h
    IN DoubleToInt(DoubleProduct(normalized_h.abs, Double(100)))

\* HSL::parse_css_hsl: the outcome of the constructor
parse_css_hsl(css_str) ==
    LET split == css_parts(css_str)
        parts == split.parts
    IN IF split.error # "none" THEN Thrown(split.error)
       ELSE IF Len(parts) < 3 \/ Len(parts) > 4 THEN Thrown("invalid_argument")
       ELSE CHOOSE r \in
           {IF FirstError(c) # "none" THEN Thrown(FirstError(c))
            ELSE Constructed(HSL_normalize(
                     [h |-> HueOfDouble(c[1].value),
                      s |-> UnitByte(Hundredth(c[2].value)),
                      l |-> UnitByte(Hundredth(c[3].value)),
                      alpha |-> IF Len(parts) = 4 THEN UnitByte(c[4].value) ELSE 255])) :
              c \in {<<stod(parts[1]), stod(without_percent(parts[2])),
                       stod(without_percent(parts[3]))>>
                       \o (IF Len(parts) = 4 THEN <<stod(parts[4])>> ELSE <<>>)}} : TRUE

\* HSL(const std::string &hsl_str)
HSL_of_string(hsl_str) ==
    IF hsl_str = <<>> THEN Thrown("invalid_argument")
    ELSE IF substr(hsl_str, 0, 4) = <<"h", "s", "l", "(">> \/ substr(hsl_str, 0, 5) = <<"h", "s", "l", "a", "(">>
           THEN parse_css_hsl(hsl_str)
    ELSE Thrown("invalid_argument")

\* the numbers written in the strings, each with the value the component has
\* when a number out of range is clamped to the range
RgbChannels ==
    {[text |-> <<"3", "0", "0">>, clamped |-> 255],
     [text |-> <<"-", "5", "0">>, clamped |-> 0],
     [text |-> <<"1", "2">>, clamped |-> 12],
     [text |-> <<"0">>, clamped |-> 0],
     [text |-> <<"3", "0", "0", "0", "0", "0", "0", "0", "0", "0">>, clamped |-> 255]}
RgbAlphas ==
    {[text |-> <<"2", ".", "0">>, clamped |-> 255],
     [text |-> <<"-", "0", ".", "5">>, clamped |-> 0],
     [text |-> <<"0", ".", "5">>, clamped |-> 127],
     [text |-> <<"9", "0", "0", "0", "0", "0", "0">>, clamped |-> 255]}
HslHues == {<<"1", "2", "0">>, <<"-", "6", "0">>, <<"4", "2", "0">>}
HslPercents ==
    {[text |-> <<"5", "0", "%">>, clamped |-> 127],
     [text |-> <<"1", "5", "0", "%">>, clamped |-> 255],
     [text |-> <<"2", "5">>, clamped |-> 63],
     [text |-> <<"-", "2", "0", "%">>, clamped |-> 0]}
HslAlphas ==
    {[text |-> <<"0", ".", "8">>, clamped |-> 204],
     [text |-> <<"2", ".", "0">>, clamped |-> 255],
     [text |-> <<"-", "0", ".", "5">>, clamped |-> 0]}

\* no alpha component
Absent == [text |-> <<>>, clamped |-> 255]

Separators == {<<",">>, <<",", " ">>}

\* name(c1, c2, c3) or namea(c1, c2, c3, alpha)
CssText(name, c1, c2, c3, alpha, sep) ==
    name \o (IF alpha = <<>> THEN <<"(">> ELSE <<"a", "(">>)
         \o c1 \o sep \o c2 \o sep \o c3
         \o (IF alpha = <<>> THEN <<>> ELSE sep \o alpha) \o <<")">>

\* well-formed rgb() and rgba() strings, the numbers in or out of range
RgbNumberStrings ==
    {[text |-> CssText(<<"r", "g", "b">>, c1.text, c2.text, c3.text, alpha.text, sep),
      class |-> "numbers",
      expected |-> <<c1.clamped, c2.clamped, c3.clamped, alpha.clamped>>] :
        c1 \in RgbChannels, c2 \in {c \in RgbChannels : c.clamped \in {0, 12}},
        c3 \in {c \in RgbChannels : c.clamped = 255 /\ Len(c.text) = 3},
        alpha \in RgbAlphas \cup {Absent}, sep \in Separators}

\* hexadecimal colours
RgbHexStrings ==
    {[text |-> <<"#", "f", "0", "f">>, class |-> "numbers", expected |-> <<255, 0, 255, 255>>],
     [text |-> <<"f", "f", "0", "a", "0", "0">>, class |-> "numbers", expected |-> <<255, 10, 0, 255>>],
     [text |-> <<"#", "f", "f", "0", "a", "0", "0", "8", "0">>, class |-> "numbers", expected |-> <<255, 10, 0, 128>>]}

\* structurally malformed strings
RgbMalformedStrings ==
    {[text |-> <<>>, class |-> "empty", expected |-> <<>>],
     [text |-> <<"h", "s", "l", "(", "0", ",", "0", ",", "0", ")">>, class |-> "unrecognised", expected |-> <<>>],
     [text |-> <<"a", "(", "b", ",", "c", ",", "d", ")">>, class |-> "unrecognised", expected |-> <<>>],
     [text |-> <<"1", "g", "2", "h", "3", "f">>, class |-> "unrecognised", expected |-> <<>>],
     [text |-> <<"#", "1", "2">>, class |-> "unrecognised", expected |-> <<>>],
     [text |-> <<"#", "g", "g", "g">>, class |-> "unrecognised", expected |-> <<>>],
     [text |-> <<"r", "g", "b", "(", "2", "5", "5", ",", "0", ",", "0">>, class |-> "missing_bracket", expected |-> <<>>],
     [text |-> <<"r", "g", "b", "2", "5", "5", ",", "0", ",", "0", ")">>, class |-> "missing_bracket", expected |-> <<>>],
     [text |-> <<"r", "g", "b", "(", "2", "5", "5", " ", "1", "2", "8", " ", "6", "4", ")">>, class |-> "missing_commas", expected |-> <<>>],
     [text |-> <<"r", "g", "b", "(", "2", "5", "5", ",", " ", "1", "2", "8", ")">>, class |-> "component_count", expected |-> <<>>],
     [text |-> <<"r", "g", "b", "(", ")">>, class |-> "component_count", expected |-> <<>>],
     [text |-> <<"r", "g", "b", "(", "2", "5", "5", ",", " ", "1", "2", "8", ",", " ", "6", "4", ",", " ", "1", ",", " ", "2", ")">>, class |-> "component_count", expected |-> <<>>]}

RgbStrings == RgbNumberStrings \cup RgbHexStrings \cup RgbMalformedStrings

HslNumberStrings ==
    {[text |-> CssText(<<"h", "s", "l">>, h_, s_.text, l_.text, alpha.text, sep),
      class |-> "numbers",
      expected |-> <<s_.clamped, l_.clamped, alpha.clamped>>] :
        h_ \in HslHues, s_ \in HslPercents, l_ \in HslPercents,
        alpha \in HslAlphas \cup {Absent}, sep \in Separators}

HslMalformedStrings ==
    {[text |-> <<>>, class |-> "empty", expected |-> <<>>],
     [text |-> <<"r", "g", "b", "(", "1", "2", "0", ",", " ", "5", "0", "%", ",", " ", "7", "5", "%", ")">>, class |-> "unrecognised", expected |-> <<>>],
     [text |-> <<"#", "f", "f", "0", "0", "0", "0">>, class |-> "unrecognised", expected |-> <<>>],
     [text |-> <<"h", "s", "l", "(", "1", "2", "0", ",", " ", "5", "0", "%", ",", " ", "7", "5", "%">>, class |-> "missing_bracket", expected |-> <<>>],
     [text |-> <<"h", "s", "l", "1", "2", "0", ",", " ", "5", "0", "%", ",", " ", "7", "5", "%", ")">>, class |-> "missing_bracket", expected |-> <<>>],
     [text |-> <<"h", "s", "l", "(", "1", "2", "0", " ", "5", "0", "%", " ", "7", "5", "%", ")">>, class |-> "missing_commas", expected |-> <<>>],
     [text |-> <<"h", "s", "l", "(", "1", "2", "0", ",", " ", "5", "0", ")">>, class |-> "component_count", expected |-> <<>>],
     [text |-> <<"h", "s", "l", "(", ")">>, class |-> "component_count", expected |-> <<>>],
     [text |-> <<"h", "s", "l", "(", "1", ",", "2", ",", "3", ",", "4", ",", "5", ")">>, class |-> "component_count", expected |-> <<>>]}

HslStrings == HslNumberStrings \cup HslMalformedStrings

ParseInit ==
    /\ op = "init"
    /\ trail = <<>> /\ space = NoSpace /\ output = <<>> /\ scalar = "none"
    /\ result = NoObject /\ hsl = HSL_default
    /\ color = RGB_default /\ other = RGB_default /\ param = 0 /\ palette = <<>>

ParseFrame == <<color, other, param, hsl, palette>>

\* the object the caller holds after the construction
ObjectRGB(outcome) ==
    IF outcome.error # "none" THEN NoObject
    ELSE RGB(outcome.value.r, outcome.value.g, outcome.value.b, outcome.value.a)

ObjectHSL(outcome) ==
    IF outcome.error # "none" THEN NoObject
    ELSE [h |-> outcome.value.h, s |-> outcome.value.s, l |-> outcome.value.l,
          alpha |-> outcome.value.alpha]

\* RGB x(color_str): trail holds the string, space what kind of string it
\* is, output the components expected of clamping, scalar the exception
\* and result the object constructed
ConstructRGBOfString ==
    \E input \in RgbStrings : \E outcome \in RGB_of_string(input.text) :
        /\ op' = "RGB"
        /\ trail' = input.text
        /\ space' = [type |-> input.class]
        /\ output' = input.expected
        /\ scalar' = outcome.error
        /\ result' = ObjectRGB(outcome)
        /\ UNCHANGED ParseFrame

\* HSL x(hsl_str)
ConstructHSLOfString ==
    \E input \in HslStrings : \E outcome \in {HSL_of_string(input.text)} :
        /\ op' = "HSL"
        /\ trail' = input.text
        /\ space' = [type |-> input.class]
        /\ output' = input.expected
        /\ scalar' = outcome.error
        /\ result' = ObjectHSL(outcome)
        /\ UNCHANGED ParseFrame

ParseNext ==
    \/ ConstructRGBOfString
    \/ ConstructHSLOfString

SpecParse == ParseInit /\ [][ParseNext]_vars

MalformedClasses == {"empty", "unrecognised", "missing_bracket", "missing_commas", "component_count"}

\* the components are the numbers of the string, clamped to the range
ComponentsClamped ==
    /\ op = "RGB" => <<result.r, result.g, result.b, result.a>> = output
    /\ op = "HSL" => <<result.s, result.l, result.alpha>> = output /\ result.h < FULL_TURN

\* C27: RGB(string) and HSL(string) report every structurally malformed input
\* (empty string, unrecognised format, missing bracket, missing commas,
\* component count below 3 or above 4) as an error, and clamp numeric
\* components that are out of range instead of rejecting them.
MalformedReportedNumbersClamped ==
    op \in {"RGB", "HSL"} =>
        /\ space.type \in MalformedClasses => scalar # "none"
        /\ space.type = "numbers" => (scalar = "none" /\ ComponentsClamped)

\* the strings of C27 that hold: every HSL string, and the RGB strings
\* that are rgb( or rgba( with numbers that fit an int (a product alpha * 255
\* that fits an int) or are not 3, 6 or 8 characters after the #
ParsedAsClaimed ==
    (\/ op = "HSL"
     \/ /\ op = "RGB"
        /\ \A i \in 1..(Len(trail) - 5) : SubSeq(trail, i, i + 5) # <<"0", "0", "0", "0", "0", "0">>
        /\ trail \notin {<<"a", "(", "b", ",", "c", ",", "d", ")">>, <<"1", "g", "2", "h", "3", "f">>})
        => MalformedReportedNumbersClamped

-----------------------------------------------------------------------------
(* Alpha through the conversions                                           *)
(* HSV holds three floats, modelled here in the fixed point of the other   *)
(* conversions; MONO holds the luminance byte and the alpha.               *)

\* x fmod y for y > 0: the remainder has the sign of x
Fmod(x, y) == IF x >= 0 THEN x % y ELSE -((-x) % y)

\* HSV::normalize on the fixed point
HSV_normalize_fixed(x) ==
    LET h1 == IF x.h < 0 \/ x.h >= 360 * S THEN Fmod(x.h, 360 * S) ELSE x.h
        h2 == IF h1 < 0 THEN h1 + 360 * S ELSE h1
    IN [type |-> "HSV", h |-> h2, s |-> Clamp(x.s, 0, S), v |-> Clamp(x.v, 0, S)]

\* HSV::fromRGB: the alpha of c is not read
HSV_fromRGB(c) ==
    LET rf == Ratio(c.r, 255)
        gf == Ratio(c.g, 255)
        bf == Ratio(c.b, 255)
        mx == Max(rf, Max(gf, bf))
        mn == Min(rf, Min(gf, bf))
        delta == mx - mn
        h0 == IF delta < Dec(0, 10) THEN 0
              ELSE IF mx = rf THEN 60 * Fmod(Div(gf - bf, delta), 6 * S)
              ELSE IF mx = gf THEN 60 * (Div(bf - rf, delta) + 2 * S)
              ELSE 60 * (Div(rf - gf, delta) + 4 * S)
    IN HSV_normalize_fixed([h |-> IF h0 < 0 THEN h0 + 360 * S ELSE h0,
                            s |-> IF mx < Dec(0, 10) THEN 0 ELSE Div(delta, mx),
                            v |-> mx])

\* static_cast<uint8_t>(std::round(v * 255))
HsvChannel(v) == Round(v * 255) % 256

\* HSV::to_rgb
HSV_to_rgb(x) ==
    LET C == Mul(x.v, x.s)
        X == Mul(C, S - Abs(Fmod(x.h \div 60, 2 * S) - S))
        m == x.v - C
        p == IF x.h < 60 * S THEN <<C, X, 0>>
             ELSE IF x.h < 120 * S THEN <<X, C, 0>>
             ELSE IF x.h < 180 * S THEN <<0, C, X>>
             ELSE IF x.h < 240 * S THEN <<0, X, C>>
             ELSE IF x.h < 300 * S THEN <<X, 0, C>>
             ELSE <<C, 0, X>>
    IN RGB(HsvChannel(p[1] + m), HsvChannel(p[2] + m), HsvChannel(p[3] + m), 255)

\* MONO(const RGB &rgb)
MONO_fromRGB(rgb) == [type |-> "MONO", v |-> ToUint8(DoubleToInt(luminance(rgb))), a |-> rgb.a]

\* MONO::to_rgb with the default alpha of the RGB constructor
MONO_to_rgb_opaque(x) == RGB(x.v, x.v, x.v, 255)

\* MONO::to_rgb
MONO_to_rgb(x) == RGB(x.v, x.v, x.v, x.a)

AlphaR == {0, 200, 255}
AlphaG == {13, 200}
AlphaB == {0, 64, 200}
Alphas == {0, 1, 77, 128, 254, 255}

AlphaInit ==
    /\ op = "init"
    /\ color \in {RGB(r, g, b, a) : r \in AlphaR, g \in AlphaG, b \in AlphaB, a \in Alphas}
    /\ result = RGB_default
    /\ other = RGB_default /\ hsl = HSL_default /\ space = NoSpace
    /\ param = 0 /\ scalar = 0
    /\ trail = <<>> /\ palette = <<>> /\ output = <<>>

AlphaFrame == <<color, other, param, space, hsl, trail, palette, output, scalar>>

\* c = X::fromRGB(color).to_rgb()
RoundTrip(name, c) ==
    /\ op' = name
    /\ result' = c
    /\ UNCHANGED AlphaFrame

RoundTripHSL == RoundTrip("HSL", HSL_to_rgb(HSL_fromRGB(color)))
RoundTripLAB == RoundTrip("LAB", LAB_to_rgb(LAB_fromRGB(color)))
RoundTripMONO == RoundTrip("MONO", MONO_to_rgb(MONO_fromRGB(color)))
RoundTripHSV == RoundTrip("HSV", HSV_to_rgb(HSV_fromRGB(color)))
RoundTripXYZ == RoundTrip("XYZ", XYZ_to_rgb(XYZ_fromRGB(color)))
RoundTripOKLAB == RoundTrip("OKLAB", OKLAB_to_rgb(OKLAB_fromRGB(color)))
RoundTripLCH == RoundTrip("LCH", LCH_to_rgb(LCH_fromRGB(color)))

AlphaNext ==
    \/ RoundTripHSL
    \/ RoundTripLAB
    \/ RoundTripMONO
    \/ RoundTripHSV
    \/ RoundTripXYZ
    \/ RoundTripOKLAB
    \/ RoundTripLCH

SpecAlpha == AlphaInit /\ [][AlphaNext]_vars

\* C28: HSL::fromRGB(c).to_rgb(), LAB::fromRGB(c).to_rgb() and
\* MONO(c).to_rgb() carry the alpha of c unchanged; HSV::fromRGB(c).to_rgb(),
\* XYZ::fromRGB(c).to_rgb(), OKLAB::fromRGB(c).to_rgb() and
\* LCH::fromRGB(c).to_rgb() return alpha 255 whatever the alpha of c was.
AlphaCarriedOrOpaque ==
    /\ op \in {"HSL", "LAB", "MONO"} => result.a = color.a
    /\ op \in {"HSV", "XYZ", "OKLAB", "LCH"} => result.a = 255

\* C28: a colour of alpha 77 came back opaque from LCH, its red channel kept
AlphaLostThroughLCH ==
    /\ op = "LCH"
    /\ color.a = 77
    /\ result.a = 255
    /\ result.r = color.r

-----------------------------------------------------------------------------
(* remove_duplicates applied to its own result                             *)

\* thresholds below, at and above zero
DedupThresholds == {-5 * S, 0, 10 * S, 12 * S}

\* unique = remove_duplicates(palette, threshold)
Deduplicate ==
    /\ op = "init"
    /\ \E threshold \in DedupThresholds :
           /\ param' = threshold
           /\ output' = remove_duplicates(palette, threshold)
    /\ op' = "remove_duplicates"
    /\ UNCHANGED <<color, other, space, result, hsl, trail, palette, scalar>>

\* again = remove_duplicates(unique, threshold), held in trail
DeduplicateAgain ==
    /\ op = "remove_duplicates"
    /\ trail' = remove_duplicates(output, param)
    /\ op' = "remove_duplicates_again"
    /\ UNCHANGED <<color, other, param, space, result, hsl, palette, output, scalar>>

DedupNext ==
    \/ Deduplicate
    \/ DeduplicateAgain

SpecDedup == PaletteInit /\ [][DedupNext]_vars

\* C29: remove_duplicates(remove_duplicates(p, t), t) equals
\* remove_duplicates(p, t) for every palette p and threshold t, and for
\* t <= 0 the output equals the input, exact duplicates included.
DedupIdempotent ==
    /\ op = "remove_duplicates_again" => trail = output
    /\ (op \in {"remove_duplicates", "remove_duplicates_again"} /\ param <= 0) =>
           output = palette

\* C29: two of four colours were removed at threshold 10, and the second call
\* had two colours to compare
DedupTwiceOfFour ==
    /\ op = "remove_duplicates_again"
    /\ param = 10 * S
    /\ Len(palette) = 4
    /\ Len(output) = 2
    /\ Len(trail) = 2

-----------------------------------------------------------------------------
(* extract_dominant_colors, one pick of its while loop at a time           *)

\* the number of indexes of colors holding c
Occurrences(colors, c) == Cardinality({k \in 1..Len(colors) : colors[k] = c})

\* the condition of the while loop
LoopCondition(dominant, remaining, count) ==
    BelowCount(Len(dominant), count) /\ remaining # <<>>

\* the call up to the while loop: the early return for an empty input, or
\* dominant = {} (output) and remaining = colors (trail)
EnterExtract ==
    /\ op = "init"
    /\ \E count \in Counts : param' = count
    /\ output' = <<>>
    /\ trail' = palette
    /\ op' = IF palette = <<>> THEN "return" ELSE "while"
    /\ UNCHANGED <<color, other, space, result, hsl, palette, scalar>>

\* one pass of the while loop; scalar counts the passes
Pick ==
    /\ op = "while"
    /\ LoopCondition(output, trail, param)
    /\ \E b \in {best_index_from(trail, output, 1, 0, 1)} :
           /\ output' = Append(output, trail[b])
           /\ trail' = Erase(trail, b)
    /\ scalar' = scalar + 1
    /\ UNCHANGED <<op, color, other, param, space, result, hsl, palette>>

\* the loop condition fails: return dominant
ReturnDominant ==
    /\ op = "while"
    /\ ~LoopCondition(output, trail, param)
    /\ op' = "return"
    /\ UNCHANGED <<color, other, param, space, result, hsl, trail, palette, output,
                   scalar>>

PickNext ==
    \/ EnterExtract
    \/ Pick
    \/ ReturnDominant

SpecPick == PaletteInit /\ [][PickNext]_vars

\* the colours selected and the colours remaining are together the colours
\* of the input, each as often as there
SelectedAndRemainingAreInput ==
    \A c \in PaletteColors :
        Occurrences(output, c) + Occurrences(trail, c) = Occurrences(palette, c)

\* C30: extract_dominant_colors only rearranges and selects: every colour of
\* the result is an element of the input and occurs in the result no more
\* often than in the input; when count >= |colors| the result is a
\* permutation of the input; the loop ends after at most |colors| picks; the
\* caller's vector is never modified.
DominantSelectsFromInput ==
    /\ [](op \in {"while", "return"} =>
            /\ \A k \in 1..Len(output) :
                   /\ \E j \in 1..Len(palette) : palette[j] = output[k]
                   /\ Occurrences(output, output[k]) <= Occurrences(palette, output[k])
            /\ SelectedAndRemainingAreInput
            /\ scalar <= Len(palette)
            /\ Len(trail) = Len(palette) - scalar
            /\ scalar = Len(palette) => ~LoopCondition(output, trail, param)
            /\ (op = "return" /\ param >= Len(palette)) =>
                   /\ Len(output) = Len(palette)
                   /\ \A c \in PaletteColors :
                          Occurrences(output, c) = Occurrences(palette, c))
    /\ [][palette' = palette]_vars

\* C30: of four colours, one of them held twice, three were asked for and
\* returned, the colour held twice once only and not in the order of the input
DominantThreeOfFour ==
    /\ op = "return"
    /\ Len(palette) = 4
    /\ param = 3
    /\ scalar = 3
    /\ Len(output) = 3
    /\ \E c \in PaletteColors : Occurrences(palette, c) = 2 /\ Occurrences(output, c) = 1
    /\ output # SubSeq(palette, 1, 3)

\* the loop run to its end returns what extract_dominant_colors returns
PicksAreExtract ==
    op = "return" => output = extract_dominant_colors(palette, param)

====
